---- MODULE Spec2Model ----
(***************************************************************************)
(* A model of the meeting summarizer server (src/src/server.js): the       *)
(* transcript cleaner, the speaker segmenter, the entity and task          *)
(* extractors, the summarization orchestrator and the HTTP handlers that   *)
(* run them against the in-memory meeting and task stores.                 *)
(*                                                                         *)
(* Texts are TLA+ strings, read character by character with At(s, i); the  *)
(* regular expressions of the source are written out as scanning           *)
(* operators over these characters.                                        *)
(***************************************************************************)
EXTENDS Integers, Sequences, FiniteSets, TLC

VARIABLES
  meetings,          \* let meetings = []
  tasks,             \* let tasks = [] : references to the task objects
  heap,              \* the task objects, by reference
  meetingIdCounter,  \* let meetingIdCounter = 1
  taskIdCounter,     \* let taskIdCounter = 1
  reqs,              \* the requests received so far: handler state or response
  wallClock,         \* the instant the clock of new Date() has reached
  arg,               \* the argument of the function under study
  res                \* what the function has returned for it

stores == <<meetings, tasks, heap, meetingIdCounter, taskIdCounter>>

vars ==
  <<meetings, tasks, heap, meetingIdCounter, taskIdCounter, reqs, wallClock, arg, res>>

(***************************************************************************)
(* Characters and strings (JavaScript String and RegExp character classes, *)
(* restricted to ASCII).                                                   *)
(***************************************************************************)
NULL == "<null>"
UNDEFINED == "<undefined>"

\* !value for a value that is a string, null or undefined
Falsy(value) == value \in {NULL, UNDEFINED, ""}

UpperChars == {"A","B","C","D","E","F","G","H","I","J","K","L","M",
               "N","O","P","Q","R","S","T","U","V","W","X","Y","Z"}

LowerChars == {"a","b","c","d","e","f","g","h","i","j","k","l","m",
               "n","o","p","q","r","s","t","u","v","w","x","y","z"}

DigitChars == {"0","1","2","3","4","5","6","7","8","9"}

\* \w of a JavaScript regular expression
WordChars == UpperChars \cup LowerChars \cup DigitChars \cup {"_"}

\* the vertical tab (U+000B), for which TLA+ has no escape: the string holds
\* the character itself
VerticalTab == ""

\* \s of a JavaScript regular expression, and the white space of trim(): the
\* ASCII part
SpaceChars == {" ", "\n", "\t", "\r", "\f", VerticalTab}

At(s, i) == SubSeq(s, i, i)

LowerOf(c) ==
  CASE c = "A" -> "a" [] c = "B" -> "b" [] c = "C" -> "c" [] c = "D" -> "d"
    [] c = "E" -> "e" [] c = "F" -> "f" [] c = "G" -> "g" [] c = "H" -> "h"
    [] c = "I" -> "i" [] c = "J" -> "j" [] c = "K" -> "k" [] c = "L" -> "l"
    [] c = "M" -> "m" [] c = "N" -> "n" [] c = "O" -> "o" [] c = "P" -> "p"
    [] c = "Q" -> "q" [] c = "R" -> "r" [] c = "S" -> "s" [] c = "T" -> "t"
    [] c = "U" -> "u" [] c = "V" -> "v" [] c = "W" -> "w" [] c = "X" -> "x"
    [] c = "Y" -> "y" [] c = "Z" -> "z" [] OTHER -> c

\* the least and the greatest element of a non-empty set of integers
MinOf(S) == CHOOSE x \in S : \A y \in S : x <= y
MaxOf(S) == CHOOSE x \in S : \A y \in S : x >= y

\* the least and the greatest element of a set of positions, 0 when it is empty
FirstOf(S) == IF S = {} THEN 0 ELSE MinOf(S)
LastOf(S) == IF S = {} THEN 0 ELSE MaxOf(S)

\* the function f of domain 1..n as a tuple, its values computed once
Materialised(f) == SubSeq(f, 1, Len(f))

\* the function f of any domain as a table, its values computed once
Tabulated(f) == f @@ <<>>

\* the first index >= i at which the function at is not none, 0 when there is
\* no such index
NextAt(at, none, i) == FirstOf({j \in DOMAIN at : j >= i /\ at[j] # none})

\* the concatenation of the strings pieces[lo], ..., pieces[hi]
RECURSIVE ConcatRange(_, _, _)
ConcatRange(pieces, lo, hi) ==
  IF lo > hi THEN ""
  ELSE IF lo = hi THEN pieces[lo]
  ELSE ConcatRange(pieces, lo, (lo + hi) \div 2)
         \o ConcatRange(pieces, (lo + hi) \div 2 + 1, hi)

Concat(pieces) == ConcatRange(pieces, 1, Len(pieces))

toLowerCase(s) == Concat([i \in 1..Len(s) |-> LowerOf(At(s, i))])

\* String.prototype.trim
trim(s) ==
  LET S == {j \in 1..Len(s) : At(s, j) \notin SpaceChars}
  IN  IF S = {} THEN "" ELSE SubSeq(s, MinOf(S), MaxOf(S))

\* the literal lit stands in s at position i
LitAt(s, i, lit) ==
  /\ i >= 1
  /\ i + Len(lit) - 1 <= Len(s)
  /\ SubSeq(s, i, i + Len(lit) - 1) = lit

\* the same, under the i flag
LitAtI(s, i, lit) ==
  /\ i >= 1
  /\ i + Len(lit) - 1 <= Len(s)
  /\ toLowerCase(SubSeq(s, i, i + Len(lit) - 1)) = toLowerCase(lit)

\* String.prototype.includes
includes(s, lit) == \E i \in 1..Len(s) + 1 : LitAt(s, i, lit)

\* the first index >= i of s holding a character of set cs, 0 when there is none
IndexIn(s, cs, i) ==
  IF \E j \in i..Len(s) : At(s, j) \in cs
  THEN CHOOSE j \in i..Len(s) :
         At(s, j) \in cs /\ \A k \in i..j - 1 : At(s, k) \notin cs
  ELSE 0

\* the end (last index) of the longest run of characters of cs starting at i;
\* i - 1 when the run is empty
RunEnd(s, cs, i) ==
  IF i > Len(s) THEN i - 1
  ELSE CHOOSE e \in i - 1..Len(s) :
         /\ e = Len(s) \/ At(s, e + 1) \notin cs
         /\ \A k \in i..e : At(s, k) \in cs

\* \b of a regular expression, between index i - 1 and index i of s
IsWordAt(s, i) == i >= 1 /\ i <= Len(s) /\ At(s, i) \in WordChars
Boundary(s, i) == IsWordAt(s, i - 1) # IsWordAt(s, i)

(***************************************************************************)
(* cleanTranscript (server.js 770-777): four replacements and a trim.      *)
(***************************************************************************)
\* .replace(/\([^)]*\)/g, "") from index i on: when a "(" has no ")" after
\* it, no later "(" has one either
RECURSIVE StripParens(_, _)
StripParens(s, i) ==
  LET open  == IndexIn(s, {"("}, i)
      close == IF open = 0 THEN 0 ELSE IndexIn(s, {")"}, open + 1)
  IN  IF close = 0 THEN SubSeq(s, i, Len(s))
      ELSE SubSeq(s, i, open - 1) \o StripParens(s, close + 1)

\* .replace(/\s+/g, " "): what is left of the character at index i, the first
\* of a run of white space turning into the blank that replaces the run
CollapseSpaces(s) ==
  Concat([i \in 1..Len(s) |->
            IF At(s, i) \notin SpaceChars THEN At(s, i)
            ELSE IF i > 1 /\ At(s, i - 1) \in SpaceChars THEN "" ELSE " "])

\* how many times in a row " " followed by unit (case-insensitively) stands
\* in s from index i
RECURSIVE Copies(_, _, _)
Copies(s, i, unit) ==
  IF LitAt(s, i, " ") /\ LitAtI(s, i + 1, unit)
  THEN 1 + Copies(s, i + 1 + Len(unit), unit)
  ELSE 0

\* The number of copies a match of \b(unit)( \1){min,}\b takes when k copies
\* follow the unit, which ends at index e: the quantifier is greedy and gives
\* one copy back when no word boundary follows the last one. 0 when there is
\* no match.
TakenOf(s, e, unit, min, k) ==
  IF k >= min /\ Boundary(s, e + k * (1 + Len(unit)) + 1) THEN k
  ELSE IF k - 1 >= min THEN k - 1
  ELSE 0

CopiesTaken(s, e, unit, min) == TakenOf(s, e, unit, min, Copies(s, e + 1, unit))

\* (\w+) at index i after \b: its last index, 0 when it does not stand there
WordUnitEnd(s, i) ==
  IF Boundary(s, i) /\ RunEnd(s, WordChars, i) >= i
  THEN RunEnd(s, WordChars, i) ELSE 0

\* " \w+" after a first word that ends at e1: its last index, 0 when it does
\* not stand there or there is no first word
SecondWordUnitEnd(s, e1) ==
  IF e1 # 0 /\ LitAt(s, e1 + 1, " ") /\ RunEnd(s, WordChars, e1 + 2) >= e1 + 2
  THEN RunEnd(s, WordChars, e1 + 2)
  ELSE 0

\* (\w+ \w+) at index i after \b: its last index, 0 when it does not stand there
PhraseUnitEnd(s, i) == SecondWordUnitEnd(s, WordUnitEnd(s, i))

\* the last index of the match at index i of the unit ending at e followed by
\* min copies of it or more, 0 when there is no match
RepeatEndOf(i, e, taken) == IF taken = 0 THEN 0 ELSE e + taken * (2 + e - i)

RepeatEnd(s, i, e, min) ==
  IF e = 0 THEN 0
  ELSE RepeatEndOf(i, e, CopiesTaken(s, e, SubSeq(s, i, e), min))

\* String.prototype.replace(pattern, "$1") from index i on, where starts holds
\* the indices at which the pattern matches, UnitEnd(m) is the last index of
\* the group and MatchEnd(m) the last index of the match at index m
RECURSIVE KeepFirstCopy(_, _, _, _, _)
KeepFirstCopy(s, starts, i, UnitEnd, MatchEnd) ==
  IF {j \in starts : j >= i} = {} THEN SubSeq(s, i, Len(s))
  ELSE SubSeq(s, i, UnitEnd[MinOf({j \in starts : j >= i})])
         \o KeepFirstCopy(s, starts, MatchEnd[MinOf({j \in starts : j >= i})] + 1,
                          UnitEnd, MatchEnd)

\* the replacement over the whole of s
KeepFirstCopies(s, UnitEnd, MatchEnd) ==
  KeepFirstCopy(s, {j \in 1..Len(s) : MatchEnd[j] # 0}, 1, UnitEnd, MatchEnd)

\* the match ends, given the unit ends
RepeatEnds(s, UnitEnd, min) ==
  KeepFirstCopies(s, UnitEnd,
                  Materialised([j \in 1..Len(s) |-> RepeatEnd(s, j, UnitEnd[j], min)]))

\* .replace(/\b(\w+)( \1){2,}\b/gi, "$1")
CollapseWords(s) ==
  RepeatEnds(s, Materialised([j \in 1..Len(s) |-> WordUnitEnd(s, j)]), 2)

\* .replace(/\b(\w+ \w+)( \1){1,}\b/gi, "$1")
CollapsePhrases(s) ==
  RepeatEnds(s, Materialised([j \in 1..Len(s) |-> PhraseUnitEnd(s, j)]), 1)

cleanTranscript(text) ==
  trim(CollapsePhrases(CollapseWords(CollapseSpaces(StripParens(text, 1)))))

(***************************************************************************)
(* Helpers for the scanning operators below.                               *)
(***************************************************************************)
\* the characters the dot of a regular expression does not match
LineTerminators == {"\n", "\r"}

Letters == UpperChars \cup LowerChars

IsSpaceAt(s, i) == i >= 1 /\ i <= Len(s) /\ At(s, i) \in SpaceChars

\* the index after the run of white space starting at i (\s* from i)
SkipSpaces(s, i) == RunEnd(s, SpaceChars, i) + 1

\* the last index .+ reaches from index i
LineEnd(s, i) ==
  IF IndexIn(s, LineTerminators, i) = 0 THEN Len(s)
  ELSE IndexIn(s, LineTerminators, i) - 1

\* (?:k1|k2|...) at index i of s: the last index of the alternative that
\* stands there, 0 when none does.  No alternative of the lists used here is a
\* prefix of another, so at most one stands at i.
AltEnd(s, i, alts) ==
  IF \E k \in alts : LitAt(s, i, k)
  THEN i + Len(CHOOSE k \in alts : LitAt(s, i, k)) - 1
  ELSE 0

\* String.prototype.split on a regular expression cs+ : the pieces of s between
\* the runs of characters of cs, from piece start i
RECURSIVE SplitRuns(_, _, _)
SplitRuns(s, cs, i) ==
  IF IndexIn(s, cs, i) = 0 THEN <<SubSeq(s, i, Len(s))>>
  ELSE <<SubSeq(s, i, IndexIn(s, cs, i) - 1)>>
         \o SplitRuns(s, cs, RunEnd(s, cs, IndexIn(s, cs, i)) + 1)

RECURSIVE Flatten(_)
Flatten(ss) == IF ss = <<>> THEN <<>> ELSE Head(ss) \o Flatten(Tail(ss))

(***************************************************************************)
(* determinePriority (server.js 402-414)                                   *)
(***************************************************************************)
highPriorityKeywords ==
  {"urgent", "asap", "immediately", "critical", "deadline", "emergency"}

mediumPriorityKeywords == {"important", "soon", "priority", "quickly"}

\* a variant that looks for the keywords without lower-casing the text
CaseSensitivePriority(taskText) ==
  IF \E k \in highPriorityKeywords : includes(taskText, k) THEN "high"
  ELSE IF \E k \in mediumPriorityKeywords : includes(taskText, k) THEN "medium"
       ELSE "low"

determinePriority(taskText) ==
  IF \E k \in highPriorityKeywords : includes(toLowerCase(taskText), k)
  THEN "high"
  ELSE IF \E k \in mediumPriorityKeywords : includes(toLowerCase(taskText), k)
       THEN "medium"
       ELSE "low"

(***************************************************************************)
(* extractTasksFromText (server.js 278-320): the five task patterns, all   *)
(* with the g and i flags.  A pattern is matched against the lower-cased   *)
(* sentence ls; TaskCapture gives the index where its group (.+) starts,   *)
(* 0 when the pattern does not match at index i.  The white space before   *)
(* the group is greedy and gives characters back until the group, which    *)
(* needs one character that is no line terminator, can start.              *)
(***************************************************************************)
TaskKeywords1 == {"will", "should", "need to", "must", "have to", "going to",
                  "plan to", "assigned to", "responsible for"}

TaskKeywords2 == {"action item", "todo", "task", "assignment"}

TaskKeywords3 == {"follow up", "follow-up"}

TaskKeywords4 == {"schedule", "arrange", "organize", "prepare", "complete",
                  "finish", "deliver", "review", "update", "send", "call",
                  "email"}

TaskKeywords5 == {"by", "before", "due"}

TaskDays5 == {"next week", "tomorrow", "monday", "tuesday", "wednesday",
              "thursday", "friday", "end of week", "eow"}

NumTaskPatterns == 5

\* where (.+) starts after white space that may end anywhere from lo - 1 to
\* hi - 1: the greatest index of lo..hi that holds a character the dot matches,
\* 0 when there is none
GroupStart(ls, lo, hi) ==
  LastOf({p \in lo..hi : p <= Len(ls) /\ At(ls, p) \notin LineTerminators})

\* keyword \s+ (.+)
CaptureAfterSpaces(ls, e) ==
  IF e = 0 \/ ~IsSpaceAt(ls, e + 1) THEN 0
  ELSE GroupStart(ls, e + 2, SkipSpaces(ls, e + 1))

\* keyword :\s* (.+)
CaptureAfterColon(ls, e) ==
  IF e = 0 \/ ~LitAt(ls, e + 1, ":") THEN 0
  ELSE GroupStart(ls, e + 2, SkipSpaces(ls, e + 2))

\* keyword \s+ (?:k1|k2|...): the last index of the alternative, 0 if absent
AltAfterSpaces(ls, e, alts) ==
  IF e = 0 \/ ~IsSpaceAt(ls, e + 1) THEN 0
  ELSE AltEnd(ls, SkipSpaces(ls, e + 1), alts)

\* [:-]?\s* (.+) from index j: when no group can start after the mark, the
\* mark is given back and the group starts at it
CaptureAfterMark(ls, j) ==
  IF LitAt(ls, j, ":") \/ LitAt(ls, j, "-")
  THEN IF GroupStart(ls, j + 1, SkipSpaces(ls, j + 1)) # 0
       THEN GroupStart(ls, j + 1, SkipSpaces(ls, j + 1))
       ELSE j
  ELSE GroupStart(ls, j, SkipSpaces(ls, j))

\* day \s*[:-]?\s* (.+) after a day name that ends at d: when the white space
\* after the day runs to the end of the sentence the group starts in it
CaptureAfterDay(ls, d) ==
  IF d = 0 THEN 0
  ELSE IF SkipSpaces(ls, d + 1) > Len(ls) THEN GroupStart(ls, d + 1, Len(ls))
       ELSE CaptureAfterMark(ls, SkipSpaces(ls, d + 1))

TaskCapture(p, ls, i) ==
  CASE p = 1 -> CaptureAfterSpaces(ls, AltEnd(ls, i, TaskKeywords1))
    [] p = 2 -> CaptureAfterColon(ls, AltEnd(ls, i, TaskKeywords2))
    [] p = 3 ->
         CaptureAfterSpaces(
           ls, AltAfterSpaces(ls, AltEnd(ls, i, TaskKeywords3), {"with", "on"}))
    [] p = 4 -> CaptureAfterSpaces(ls, AltEnd(ls, i, TaskKeywords4))
    [] p = 5 ->
         CaptureAfterDay(ls, AltAfterSpaces(ls, AltEnd(ls, i, TaskKeywords5), TaskDays5))

\* the groups of the matches from the match at index m on, where captureAt[j]
\* is the index at which the group of the match at index j starts; 0 stands
\* for no match
RECURSIVE CapturesFrom(_, _, _)
CapturesFrom(s, captureAt, m) ==
  IF m = 0 THEN <<>>
  ELSE <<SubSeq(s, captureAt[m], LineEnd(s, captureAt[m]))>>
         \o CapturesFrom(s, captureAt,
                         NextAt(captureAt, 0, LineEnd(s, captureAt[m]) + 1))

AllCaptures(s, captureAt) == CapturesFrom(s, captureAt, NextAt(captureAt, 0, 1))

\* [...sentence.matchAll(pattern)].map(m => m[1])
TaskCaptures(p, s, ls) ==
  AllCaptures(s, Materialised([j \in 1..Len(s) |-> TaskCapture(p, ls, j)]))

\* text.split(/[.!?]+/).filter(s => s.trim().length > 5)
MinSentenceLength == 5

TaskSentences(text) ==
  SelectSeq(SplitRuns(text, {".", "!", "?"}, 1),
            LAMBDA s : Len(trim(s)) > MinSentenceLength)

MinTaskLength == 10
MaxTaskLength == 200

\* a variant without the upper limit
LongEnough(taskText) == Len(taskText) > MinTaskLength

\* if (taskText.length > 10 && taskText.length < 200)
TaskTextAccepted(taskText) ==
  Len(taskText) > MinTaskLength /\ Len(taskText) < MaxTaskLength

\* the accepted candidates of one sentence, in the order the loops visit them
\* match[1].trim() of every capture, with the sentence it is found in
Trimmed(sentence, captures) ==
  [k \in 1..Len(captures) |-> [sentence |-> sentence, text |-> trim(captures[k])]]

PatternCandidates(sentence, ls) ==
  Flatten([p \in 1..NumTaskPatterns |->
             Trimmed(sentence, TaskCaptures(p, sentence, ls))])

SentenceCandidates(sentence) ==
  SelectSeq(PatternCandidates(sentence, toLowerCase(sentence)),
            LAMBDA c : TaskTextAccepted(c.text))

CandidatesOf(sentences) ==
  Flatten([k \in 1..Len(sentences) |-> SentenceCandidates(sentences[k])])

TaskCandidates(text) == CandidatesOf(TaskSentences(text))

(***************************************************************************)
(* extractPersonFromTask and isValidTaskPerson (server.js 322-382).  The   *)
(* three person patterns carry the i flag, so [A-Z] and [a-z] both stand   *)
(* for any letter; only the first match of each pattern is looked at.      *)
(***************************************************************************)
excludeList ==
  {"january", "february", "march", "april", "may", "june", "july", "august",
   "september", "october", "november", "december",
   "jan", "feb", "mar", "apr", "jun", "jul", "aug", "sep", "oct", "nov", "dec",
   "monday", "tuesday", "wednesday", "thursday", "friday", "saturday", "sunday",
   "mon", "tue", "wed", "thu", "fri", "sat", "sun",
   "next", "last", "this", "that", "week", "month", "year",
   "today", "tomorrow", "yesterday", "morning", "afternoon", "evening"}

taskWords ==
  {"task", "item", "action", "todo", "meeting", "project", "team", "work", "job"}

isValidTaskPerson(name) ==
  /\ toLowerCase(name) \notin excludeList
  /\ Len(name) >= 2
  /\ toLowerCase(name) \notin taskWords
  /\ name # "" /\ At(name, 1) \in UpperChars

PersonKeywords == {"for", "with", "to", "by", "assigned to", "ask"}

PersonModals == {"will", "should", "need to", "needs to", "must", "has to"}

NoMatch == <<0, 0>>

\* [A-Z][a-z]+ under the i flag at index a: the last index of the run of
\* letters there when it has two letters or more, else 0
NameWordEnd(s, a) ==
  IF RunEnd(s, Letters, a) >= a + 1 THEN RunEnd(s, Letters, a) ELSE 0

\* (?:\s+[A-Z][a-z]+)? after a first word ending at b: the last index of the
\* second word, 0 when there is none
SecondWordEnd(s, b) ==
  IF IsSpaceAt(s, b + 1) THEN NameWordEnd(s, SkipSpaces(s, b + 1)) ELSE 0

\* the span of a name that starts at index a, its first word ending at b and
\* its second word, if any, at b2: the longer of the two spans after which a
\* word boundary stands
NameSpan(s, a, b, b2) ==
  IF b = 0 THEN NoMatch
  ELSE IF b2 # 0 /\ Boundary(s, b2 + 1) THEN <<a, b2>>
  ELSE IF Boundary(s, b + 1) THEN <<a, b>>
  ELSE NoMatch

\* ([A-Z][a-z]+(?:\s+[A-Z][a-z]+)?)\b where the first word ends at b
NameFrom(s, a, b) == NameSpan(s, a, b, IF b = 0 THEN 0 ELSE SecondWordEnd(s, b))

\* \s+([A-Z][a-z]+(?:\s+[A-Z][a-z]+)?)\b after a keyword that ends at e
NameAfter(s, e) ==
  IF e = 0 \/ ~IsSpaceAt(s, e + 1) THEN NoMatch
  ELSE NameFrom(s, SkipSpaces(s, e + 1), NameWordEnd(s, SkipSpaces(s, e + 1)))

\* /(?:for|with|to|by|assigned to|ask)\s+([A-Z][a-z]+(?:\s+[A-Z][a-z]+)?)\b/gi
\* at index i: the span of the group
PersonMatch1(s, ls, i) == NameAfter(s, AltEnd(ls, i, PersonKeywords))

\* \s+(?:responsible|assigned) after an (?:is|was) that ends at e
AssignedAfter(ls, e) ==
  /\ e # 0
  /\ IsSpaceAt(ls, e + 1)
  /\ AltEnd(ls, SkipSpaces(ls, e + 1), {"responsible", "assigned"}) # 0

\* the tail of person pattern p stands at index j of ls:
\* (?:will|should|needs? to|must|has to) for pattern 2,
\* (?:is|was)\s+(?:responsible|assigned) for pattern 3
PersonTailAt(p, ls, j) ==
  IF p = 2 THEN AltEnd(ls, j, PersonModals) # 0
  ELSE AssignedAfter(ls, AltEnd(ls, j, {"is", "was"}))

\* \s+(?:tail) after index b
TailAfter(p, s, ls, b) ==
  IsSpaceAt(s, b + 1) /\ PersonTailAt(p, ls, SkipSpaces(s, b + 1))

\* the span of a name at index i before the tail of pattern p, its first word
\* ending at b and its second word, if any, at b2
NameTail(p, s, ls, i, b, b2) ==
  IF b = 0 THEN NoMatch
  ELSE IF b2 # 0 /\ TailAfter(p, s, ls, b2) THEN <<i, b2>>
  ELSE IF TailAfter(p, s, ls, b) THEN <<i, b>>
  ELSE NoMatch

NameTailFrom(p, s, ls, i, b) ==
  NameTail(p, s, ls, i, b, IF b = 0 THEN 0 ELSE SecondWordEnd(s, b))

\* \b([A-Z][a-z]+(?:\s+[A-Z][a-z]+)?)\s+(?:tail) at index i, with the tail
\* of person pattern p
NameBeforeTail(p, s, ls, i) ==
  NameTailFrom(p, s, ls, i, IF Boundary(s, i) THEN NameWordEnd(s, i) ELSE 0)

\* /\b([A-Z][a-z]+(?:\s+[A-Z][a-z]+)?)\s+(?:will|should|needs? to|must|has to)/gi
PersonMatch2(s, ls, i) == NameBeforeTail(2, s, ls, i)

\* /\b([A-Z][a-z]+(?:\s+[A-Z][a-z]+)?)\s+(?:is|was)\s+(?:responsible|assigned)/gi
PersonMatch3(s, ls, i) == NameBeforeTail(3, s, ls, i)

PersonMatch(p, s, ls, i) ==
  CASE p = 1 -> PersonMatch1(s, ls, i)
    [] p = 2 -> PersonMatch2(s, ls, i)
    [] p = 3 -> PersonMatch3(s, ls, i)

\* the text of s over a span
SpanText(s, span) == SubSeq(s, span[1], span[2])

\* the group of the leftmost match, NULL when there is no match
FirstGroup(s, matchAt) ==
  IF NextAt(matchAt, NoMatch, 1) = 0 THEN NULL
  ELSE SpanText(s, matchAt[NextAt(matchAt, NoMatch, 1)])

\* pattern.exec(sentence) with lastIndex 0: the group of the leftmost match,
\* NULL when the pattern matches nowhere
PersonExec(p, s, ls) ==
  FirstGroup(s, Materialised([j \in 1..Len(s) |-> PersonMatch(p, s, ls, j)]))

\* /^[A-Z][a-z]+$/.test(word)
IsCapitalizedWord(word) ==
  /\ Len(word) >= 2
  /\ At(word, 1) \in UpperChars
  /\ \A k \in 2..Len(word) : At(word, k) \in LowerChars

NumPersonPatterns == 3

\* the first pattern whose match is a valid person gives the person, else the
\* first capitalised word of the sentence that is one, else null
PersonOf(found, words) ==
  LET ok(p) == found[p] # NULL /\ isValidTaskPerson(trim(found[p]))
  IN  IF \E p \in 1..NumPersonPatterns : ok(p)
      THEN trim(found[CHOOSE p \in 1..NumPersonPatterns :
                        ok(p) /\ \A q \in 1..p - 1 : ~ok(q)])
      ELSE IF words # <<>> THEN Head(words)
      ELSE NULL

PersonMatches(sentence, ls) ==
  Materialised([p \in 1..NumPersonPatterns |-> PersonExec(p, sentence, ls)])

extractPersonFromTask(sentence, taskText) ==
  PersonOf(PersonMatches(sentence, toLowerCase(sentence)),
           SelectSeq(SplitRuns(sentence, SpaceChars, 1),
                     LAMBDA w : IsCapitalizedWord(w) /\ isValidTaskPerson(w)))

(***************************************************************************)
(* extractDeadlineFromTask (server.js 384-400).  The patterns carry the g  *)
(* flag, so sentence.match(pattern) is the list of the matched substrings, *)
(* without groups: match[1] is the second match and match[0] the first.    *)
(***************************************************************************)
DeadlineKeywords == {"by", "before", "due", "deadline"}

DeadlineDays == {"monday", "tuesday", "wednesday", "thursday", "friday",
                 "saturday", "sunday", "week", "month"}

MonthNames == {"january", "february", "march", "april", "may", "june", "july",
               "august", "september", "october", "november", "december"}

\* the number of digits \d{1,max} takes at index i
DigitsTaken(s, i, max) ==
  IF RunEnd(s, DigitChars, i) - i + 1 > max THEN max
  ELSE RunEnd(s, DigitChars, i) - i + 1

\* (?:by|before|due|deadline)\s+ at index i: the index after it, 0 if absent
AfterDeadlineKeyword(ls, i) ==
  IF AltEnd(ls, i, DeadlineKeywords) = 0
     \/ ~IsSpaceAt(ls, AltEnd(ls, i, DeadlineKeywords) + 1)
  THEN 0
  ELSE SkipSpaces(ls, AltEnd(ls, i, DeadlineKeywords) + 1)

\* \s+\d{1,2} after a month name that ends at m: its last index, 0 if absent
DayOfMonthEnd(ls, m) ==
  IF m = 0 \/ ~IsSpaceAt(ls, m + 1) \/ DigitsTaken(ls, SkipSpaces(ls, m + 1), 2) = 0
  THEN 0
  ELSE SkipSpaces(ls, m + 1) + DigitsTaken(ls, SkipSpaces(ls, m + 1), 2) - 1

\* (?:month)\s+\d{1,2} at index a: its last index, 0 if absent
MonthDayEnd(ls, a) == IF a = 0 THEN 0 ELSE DayOfMonthEnd(ls, AltEnd(ls, a, MonthNames))

\* next\s+(?:day) at index a: its last index, 0 if absent
NextDayEnd(ls, a) ==
  IF LitAt(ls, a, "next") /\ IsSpaceAt(ls, a + 4)
  THEN AltEnd(ls, SkipSpaces(ls, a + 4), DeadlineDays)
  ELSE 0

\* (next\s+)?(?:day) at index a: its last index, 0 if absent
DayEnd(ls, a) ==
  IF a = 0 THEN 0
  ELSE IF NextDayEnd(ls, a) # 0 THEN NextDayEnd(ls, a)
  ELSE AltEnd(ls, a, DeadlineDays)

\* (\/\d{2,4})? after index e: the last index of the date
YearEnd(ls, e) ==
  IF LitAt(ls, e + 1, "/") /\ DigitsTaken(ls, e + 2, 4) >= 2
  THEN e + 1 + DigitsTaken(ls, e + 2, 4)
  ELSE e

\* \/\d{1,2}(\/\d{2,4})? after index e: its last index, 0 if absent
MonthYearEnd(ls, e) ==
  IF LitAt(ls, e + 1, "/") /\ DigitsTaken(ls, e + 2, 2) # 0
  THEN YearEnd(ls, e + 1 + DigitsTaken(ls, e + 2, 2))
  ELSE 0

\* \d{1,2}\/\d{1,2}(\/\d{2,4})? at index a: its last index, 0 if absent
SlashDateEnd(ls, a) ==
  IF a = 0 \/ RunEnd(ls, DigitChars, a) - a + 1 \notin 1..2 THEN 0
  ELSE MonthYearEnd(ls, RunEnd(ls, DigitChars, a))

\* (?:st|nd|rd|th)? after index e
OrdinalEnd(ls, e) ==
  IF e = 0 THEN 0
  ELSE IF AltEnd(ls, e + 1, {"st", "nd", "rd", "th"}) # 0 THEN e + 2
  ELSE e

\* the last index of the match of deadline pattern p at index i, 0 if none
DeadlineMatchEnd(p, ls, i) ==
  CASE p = 1 -> DayEnd(ls, AfterDeadlineKeyword(ls, i))
    [] p = 2 -> MonthDayEnd(ls, AfterDeadlineKeyword(ls, i))
    [] p = 3 -> SlashDateEnd(ls, AfterDeadlineKeyword(ls, i))
    [] p = 4 -> OrdinalEnd(ls, MonthDayEnd(ls, i))

\* the matched substrings from the match at index m on, where matchEnd[j] is
\* the last index of the match at index j; 0 stands for no match
RECURSIVE MatchesFrom(_, _, _)
MatchesFrom(s, matchEnd, m) ==
  IF m = 0 THEN <<>>
  ELSE <<SubSeq(s, m, matchEnd[m])>>
         \o MatchesFrom(s, matchEnd, NextAt(matchEnd, 0, matchEnd[m] + 1))

AllMatches(s, matchEnd) == MatchesFrom(s, matchEnd, NextAt(matchEnd, 0, 1))

\* sentence.match(pattern): the matched substrings
DeadlineMatches(p, s, ls) ==
  AllMatches(s, Materialised([j \in 1..Len(s) |-> DeadlineMatchEnd(p, ls, j)]))

NumDeadlinePatterns == 4

\* match[1] || match[0] of the first pattern that matches, null when none does
DeadlineOf(found) ==
  LET first == CHOOSE p \in 1..NumDeadlinePatterns :
                 found[p] # <<>> /\ \A q \in 1..p - 1 : found[q] = <<>>
  IN  IF \A p \in 1..NumDeadlinePatterns : found[p] = <<>> THEN NULL
      ELSE IF Len(found[first]) >= 2 THEN found[first][2]
      ELSE found[first][1]

DeadlinesFound(sentence, ls) ==
  Materialised([p \in 1..NumDeadlinePatterns |-> DeadlineMatches(p, sentence, ls)])

extractDeadlineFromTask(sentence) ==
  DeadlineOf(DeadlinesFound(sentence, toLowerCase(sentence)))

\* the fields of the task of every accepted candidate that are computed from
\* the text (lines 298-311); id (line 305) and createdAt (line 312), which are
\* read from the counter and from the clock, are added by NumberTasks
FieldsOf(candidates) ==
  [k \in 1..Len(candidates) |->
     [text          |-> candidates[k].text,
      assignedTo    |-> extractPersonFromTask(candidates[k].sentence,
                                              candidates[k].text),
      deadline      |-> extractDeadlineFromTask(candidates[k].sentence),
      priority      |-> determinePriority(candidates[k].text),
      extractedFrom |-> trim(candidates[k].sentence),
      status        |-> "pending"]]

TaskFields(text) == FieldsOf(TaskCandidates(text))

\* a variant that reads the counter without moving it
ReusedId(counter, k) == counter

\* id: taskIdCounter++ : the k-th task made by a call that starts with the
\* counter at value counter
TaskIdAt(counter, k) == counter + k - 1

\* new Date().toISOString(): the clock is read once for every task and once
\* for every meeting
EarlyInstant == "2024-05-01T09:00:00.000Z"
LateInstant == "2024-05-01T09:00:00.001Z"
Instants == {EarlyInstant, LateInstant}

\* the instants the clock may show now: it does not run backwards
Readable == IF wallClock = LateInstant THEN {LateInstant} ELSE Instants

\* the readings of the clock made by a run that reads it count times, one
\* after the other without awaiting: all of them the same instant, or the
\* clock ticks once between two of them
Clocks(count) ==
  {[k \in 1..count |-> first] : first \in Readable}
    \cup {[k \in 1..count |-> IF k <= ticked THEN EarlyInstant ELSE LateInstant] :
            ticked \in IF wallClock = EarlyInstant THEN 1..count - 1 ELSE {}}

\* what the clock showed last, after the readings of clock
LastReading(clock) == IF clock = <<>> THEN wallClock ELSE clock[Len(clock)]

\* the readings that follow the first count of them
LaterReadings(clock, count) == SubSeq(clock, count + 1, Len(clock))

\* the task literal of lines 304-313: every accepted candidate, in order, takes
\* the next id and the reading of the clock made when it is built
NumberTasks(fields, counter, clock) ==
  [k \in 1..Len(fields) |->
     [id            |-> TaskIdAt(counter, k),
      text          |-> fields[k].text,
      assignedTo    |-> fields[k].assignedTo,
      deadline      |-> fields[k].deadline,
      priority      |-> fields[k].priority,
      extractedFrom |-> fields[k].extractedFrom,
      status        |-> fields[k].status,
      createdAt     |-> clock[k]]]

\* extractTasksFromText with the value of taskIdCounter it starts from and the
\* readings of the clock it makes; the actions hand NumberTasks the fields of a
\* text they have computed once
extractTasksFromText(text, counter, clock) ==
  NumberTasks(TaskFields(text), counter, clock)

(***************************************************************************)
(* parseTranscript (server.js 27-65)                                       *)
(***************************************************************************)
\* .replace(/\n/g, ' ')
NewlinesToSpaces(s) ==
  Concat([i \in 1..Len(s) |-> IF At(s, i) = "\n" THEN " " ELSE At(s, i)])

\* the first index j >= i of a white-space character that follows one of
\* . ! ? (a match of /(?<=[.!?])\s+/ starts there), 0 when there is none
SentenceBreak(s, i) ==
  FirstOf({j \in i..Len(s) :
             j > 1 /\ At(s, j) \in SpaceChars /\ At(s, j - 1) \in {".", "!", "?"}})

\* text.split(/(?<=[.!?])\s+/) from piece start i
RECURSIVE SplitSentences(_, _)
SplitSentences(s, i) ==
  IF SentenceBreak(s, i) = 0 THEN <<SubSeq(s, i, Len(s))>>
  ELSE <<SubSeq(s, i, SentenceBreak(s, i) - 1)>>
         \o SplitSentences(s, RunEnd(s, SpaceChars, SentenceBreak(s, i)) + 1)

\* [A-Z][a-z]+ at index a: its last index, 0 when it does not stand there
CapWordEnd(s, a) ==
  IF a >= 1 /\ a <= Len(s) /\ At(s, a) \in UpperChars
     /\ RunEnd(s, LowerChars, a + 1) >= a + 1
  THEN RunEnd(s, LowerChars, a + 1)
  ELSE 0

\* (?:\s+[A-Z][a-z]+)* after a word ending at b: the last index it reaches
RECURSIVE CapWordsEnd(_, _)
CapWordsEnd(s, b) ==
  IF IsSpaceAt(s, b + 1) /\ CapWordEnd(s, SkipSpaces(s, b + 1)) # 0
  THEN CapWordsEnd(s, CapWordEnd(s, SkipSpaces(s, b + 1)))
  ELSE b

\* \s*(.+)$ with the white space ending before index k: the group, or NULL
\* when it does not match.  When the white space runs to the end of the
\* sentence the group is its last character, which trims to the empty string.
RestFrom(s, j, k) ==
  IF k > Len(s)
  THEN IF j <= Len(s) /\ At(s, Len(s)) \notin LineTerminators THEN "" ELSE NULL
  ELSE IF LineEnd(s, k) = Len(s) THEN trim(SubSeq(s, k, Len(s))) ELSE NULL

RestOfSentence(s, j) == RestFrom(s, j, SkipSpaces(s, j))

\* sentence.match(speakerPatterns[p]): the speaker and the content; the speaker
\* is NULL when the pattern does not match
NoSpeaker == [speaker |-> NULL, content |-> NULL]

\* pattern 1 has [,:] right after the name, pattern 2 has \s*[,-]
SeparatorIndex(p, s, e) == IF p = 1 THEN e + 1 ELSE SkipSpaces(s, e + 1)

Separators(p) == IF p = 1 THEN {",", ":"} ELSE {",", "-"}

SpokenBy(speaker, content) ==
  IF content = NULL THEN NoSpeaker
  ELSE [speaker |-> speaker, content |-> content]

\* the match of pattern p when the name ends at e and the separator is looked
\* for at d
SpeakerAfter(p, s, e, d) ==
  IF e = 0 \/ d > Len(s) \/ At(s, d) \notin Separators(p) THEN NoSpeaker
  ELSE SpokenBy(SubSeq(s, 1, e), RestOfSentence(s, d + 1))

SpeakerNamed(p, s, e) == SpeakerAfter(p, s, e, SeparatorIndex(p, s, e))

\* the end of ([A-Z][a-z]+(?:\s+[A-Z][a-z]+)*) whose first word ends at w
SpeakerNameEnd(s, w) == IF w = 0 THEN 0 ELSE CapWordsEnd(s, w)

SpeakerMatch(p, s) == SpeakerNamed(p, s, SpeakerNameEnd(s, CapWordEnd(s, 1)))

NumSpeakerPatterns == 2

speakerStoplist == {"Good", "Thanks", "Yes", "No", "Okay", "Well"}

MinUnitLength == 10

\* a match counts when its speaker is outside the stoplist
AcceptedSpeaker(m) ==
  IF m.speaker # NULL /\ m.speaker \notin speakerStoplist THEN m ELSE NoSpeaker

\* the first of the matches that counts, NoSpeaker when none does
FirstAccepted(ms) ==
  IF NextAt(ms, NoSpeaker, 1) = 0 THEN NoSpeaker
  ELSE ms[NextAt(ms, NoSpeaker, 1)]

\* the for loop over speakerPatterns: the match it breaks on
SpeakerPattern(sentence) ==
  FirstAccepted(Materialised([p \in 1..NumSpeakerPatterns |->
                                AcceptedSpeaker(SpeakerMatch(p, sentence))]))

\* a variant that adds without looking for the element
AlwaysAdd(seq, x) == Append(seq, x)

\* Set.prototype.add on a set kept in insertion order
SetAdd(seq, x) ==
  IF \E k \in 1..Len(seq) : seq[k] = x THEN seq ELSE Append(seq, x)

\* Array.from(new Set(seq)): the elements in the order of first appearance
RECURSIVE Unique(_)
Unique(seq) ==
  IF seq = <<>> THEN <<>>
  ELSE SetAdd(Unique(SubSeq(seq, 1, Len(seq) - 1)), seq[Len(seq)])

\* text.split(/(?<=[.!?])\s+/).filter(s => s.trim().length > 10)
ParsedSentences(transcript) ==
  SelectSeq(SplitSentences(trim(NewlinesToSpaces(transcript)), 1),
            LAMBDA s : Len(trim(s)) > MinUnitLength)

\* one pass of the forEach body: m is the match the pattern loop broke on,
\* trimmed is sentence.trim()
ParseStep(prev, m, trimmed) ==
  IF m # NoSpeaker
  THEN [speakers |-> SetAdd(prev.speakers, m.speaker),
        segments |-> Append(prev.segments, m)]
  ELSE IF trimmed # ""
       THEN [speakers |-> prev.speakers,
             segments |-> Append(prev.segments,
                                 [speaker |-> NULL, content |-> trimmed])]
       ELSE prev

\* the speakers and segments after the first k sentences of the forEach loop
RECURSIVE ParseLoop(_, _)
ParseLoop(sentences, k) ==
  IF k = 0 THEN [speakers |-> <<>>, segments |-> <<>>]
  ELSE ParseStep(ParseLoop(sentences, k - 1), SpeakerPattern(sentences[k]),
                 trim(sentences[k]))

ParseAll(sentences) == ParseLoop(sentences, Len(sentences))

parseTranscript(transcript) == ParseAll(ParsedSentences(transcript))

(***************************************************************************)
(* extractKeyTopics (server.js 67-85)                                      *)
(***************************************************************************)
topicKeywords ==
  <<"launch", "release", "deployment", "development", "testing", "marketing",
    "campaign", "sales", "training", "integration", "payment", "performance",
    "security", "app store", "mobile app", "website", "documentation">>

extractKeyTopics(segments) ==
  Unique(Flatten([k \in 1..Len(segments) |->
           SelectSeq(topicKeywords,
                     LAMBDA w : includes(toLowerCase(segments[k].content), w))]))

(***************************************************************************)
(* isValidPersonName (server.js 183-209)                                   *)
(***************************************************************************)
invalidNames ==
  {"good", "thanks", "yes", "no", "okay", "well", "sure", "right",
   "january", "february", "march", "april", "may", "june",
   "july", "august", "september", "october", "november", "december",
   "monday", "tuesday", "wednesday", "thursday", "friday", "saturday", "sunday",
   "today", "tomorrow", "yesterday", "next", "last", "this", "that",
   "meeting", "call", "project", "team", "company", "business"}

MinNameLength == 2

\* the tests of isValidPersonName on name.trim() and name.toLowerCase().trim()
NameAccepted(trimmed, cleaned) ==
  /\ Len(cleaned) >= MinNameLength
  /\ cleaned \notin invalidNames
  /\ At(trimmed, 1) \in UpperChars
  /\ \A k \in 1..Len(trimmed) : At(trimmed, k) \in Letters \cup SpaceChars

TrimmedNameAccepted(trimmed) == NameAccepted(trimmed, toLowerCase(trimmed))

isValidPersonName(name) == TrimmedNameAccepted(trim(name))

(***************************************************************************)
(* extractPersonNamesRuleBased (server.js 211-246).  A match is the triple *)
(* <<first index of the group, last index of the group, last index of the  *)
(* match>>; the patterns carry the g flag and are run in an exec loop.     *)
(***************************************************************************)
NoSpan == <<0, 0, 0>>

\* the groups of the successive matches, the first of them starting at m;
\* spanAt[j] is the match that starts at index j
RECURSIVE GroupsFrom(_, _, _)
GroupsFrom(s, spanAt, m) ==
  IF m = 0 THEN <<>>
  ELSE <<SubSeq(s, spanAt[m][1], spanAt[m][2])>>
         \o GroupsFrom(s, spanAt, NextAt(spanAt, NoSpan, spanAt[m][3] + 1))

AllGroups(s, spanAt) == GroupsFrom(s, spanAt, NextAt(spanAt, NoSpan, 1))

SpeechVerbs == {"said", "mentioned", "stated", "discussed", "noted"}

\* (?:\s+[A-Z][a-z]+)? after a word ending at w
NextCapWordEnd(s, w) ==
  IF w # 0 /\ IsSpaceAt(s, w + 1) THEN CapWordEnd(s, SkipSpaces(s, w + 1)) ELSE 0

\* [:\s](?:said|mentioned|stated|discussed|noted) after index b: its last
\* index, 0 when it does not stand there
SaidEnd(s, b) ==
  IF b + 1 <= Len(s) /\ At(s, b + 1) \in {":"} \cup SpaceChars
  THEN AltEnd(s, b + 2, SpeechVerbs) ELSE 0

\* the match from i with its group ending at e and the match ending at m
SpanIf(i, e, m) == IF e # 0 /\ m # 0 THEN <<i, e, m>> ELSE NoSpan

OrElse(first, second) == IF first # NoSpan THEN first ELSE second

\* the match of rule p at index i, where the first word ends at w and the
\* optional second word at w2
PersonRuleSpan(p, s, i, w, w2) ==
  IF w = 0 THEN NoSpan
  ELSE CASE p = 1 -> OrElse(SpanIf(i, w2, SaidEnd(s, w2)), SpanIf(i, w, SaidEnd(s, w)))
         [] p = 2 ->
              IF w2 # 0 /\ LitAt(s, w2 + 1, ":") THEN <<i, w2, w2 + 1>>
              ELSE IF LitAt(s, w + 1, ":") THEN <<i, w, w + 1>>
              ELSE NoSpan
         [] p = 3 ->
              IF w2 # 0 /\ Boundary(s, w2 + 1) THEN <<i, w2, w2>>
              ELSE NoSpan

PersonRuleWords(p, s, i, w) == PersonRuleSpan(p, s, i, w, NextCapWordEnd(s, w))

PersonRuleMatch(p, s, i) ==
  PersonRuleWords(p, s, i, IF Boundary(s, i) THEN CapWordEnd(s, i) ELSE 0)

\* the groups of the successive matches of rule p
PersonRuleCaptures(p, s) ==
  AllGroups(s, Materialised([j \in 1..Len(s) |-> PersonRuleMatch(p, s, j)]))

\* name.split(' ').length
SplitOnSpaceLength(name) ==
  Cardinality({j \in 1..Len(name) : At(name, j) = " "}) + 1

RuleConfidencePerson == 80
RuleConfidenceOrg == 70

\* const name = match[1].trim() of every capture
TrimAll(names) == [k \in 1..Len(names) |-> trim(names[k])]

\* the names the rules add to personNames, in the order they are added
PersonRuleNames(text) ==
  SelectSeq(TrimAll(PersonRuleCaptures(1, text) \o PersonRuleCaptures(2, text)),
            LAMBDA n : TrimmedNameAccepted(n))
  \o SelectSeq(TrimAll(PersonRuleCaptures(3, text)),
               LAMBDA n : TrimmedNameAccepted(n) /\ SplitOnSpaceLength(n) = 2)

RuleEntities(names, conf) ==
  [k \in 1..Len(names) |->
     [text |-> names[k], confidence |-> conf, start |-> 0, end |-> 0]]

extractPersonNamesRuleBased(text) ==
  RuleEntities(Unique(PersonRuleNames(text)), RuleConfidencePerson)

(***************************************************************************)
(* extractOrganizationsRuleBased (server.js 248-273)                       *)
(***************************************************************************)
OrgSuffixes == {"Inc", "Corp", "LLC", "Ltd", "Company", "Technologies",
                "Solutions", "Systems"}

OrgPrepositions == {"at", "with", "for"}

\* [A-Z][a-zA-Z]* at index a: its last index, 0 when it does not stand there
OrgWordEnd(s, a) ==
  IF a >= 1 /\ a <= Len(s) /\ At(s, a) \in UpperChars
  THEN RunEnd(s, Letters, a + 1) ELSE 0

\* the last indices of the words [A-Z][a-zA-Z]*(?:\s+[A-Z][a-zA-Z]*)* can end
\* with, from a word starting at a, shortest first
RECURSIVE OrgWordEnds(_, _)
OrgWordEnds(s, a) ==
  IF OrgWordEnd(s, a) = 0 THEN <<>>
  ELSE <<OrgWordEnd(s, a)>>
         \o (IF IsSpaceAt(s, OrgWordEnd(s, a) + 1)
             THEN OrgWordEnds(s, SkipSpaces(s, OrgWordEnd(s, a) + 1))
             ELSE <<>>)

\* the elements of a sequence
Range(seq) == {seq[k] : k \in 1..Len(seq)}

\* a suffix ending at m counts when a word boundary follows it
SuffixAt(s, m) == IF m # 0 /\ Boundary(s, m + 1) THEN m ELSE 0

\* \s+(?:Inc|Corp|...)\b after index e: the last index of the suffix, else 0
OrgSuffixEnd(s, e) ==
  IF IsSpaceAt(s, e + 1)
  THEN SuffixAt(s, AltEnd(s, SkipSpaces(s, e + 1), OrgSuffixes))
  ELSE 0

\* rule 1, \b(words)\s+(?:suffix)\b : the longest run of words a suffix follows
SuffixedEnd(s, ends) == LastOf({x \in Range(ends) : OrgSuffixEnd(s, x) # 0})

SuffixedSpan(s, i, e) == SpanIf(i, e, OrgSuffixEnd(s, e))

\* rule 2, \b(?:at|with|for)\s+(words)\b : the longest run of words a word
\* boundary follows
BoundedEnd(s, ends) == LastOf({x \in Range(ends) : Boundary(s, x + 1)})

SpanTo(a, e) == IF e = 0 THEN NoSpan ELSE <<a, e, e>>

BoundedSpan(s, a) == SpanTo(a, BoundedEnd(s, OrgWordEnds(s, a)))

\* the words of rule 2 after a preposition ending at k
AfterPreposition(s, k) ==
  IF k = 0 \/ ~IsSpaceAt(s, k + 1) THEN NoSpan
  ELSE BoundedSpan(s, SkipSpaces(s, k + 1))

OrgRuleMatch(p, s, i) ==
  IF ~Boundary(s, i) THEN NoSpan
  ELSE CASE p = 1 -> SuffixedSpan(s, i, SuffixedEnd(s, OrgWordEnds(s, i)))
         [] p = 2 -> AfterPreposition(s, AltEnd(s, i, OrgPrepositions))

OrgRuleCaptures(p, s) ==
  AllGroups(s, Materialised([j \in 1..Len(s) |-> OrgRuleMatch(p, s, j)]))

MinOrgLength == 2

extractOrganizationsRuleBased(text) ==
  RuleEntities(
    Unique(SelectSeq(TrimAll(OrgRuleCaptures(1, text) \o OrgRuleCaptures(2, text)),
                     LAMBDA o : Len(o) > MinOrgLength /\ ~TrimmedNameAccepted(o))),
    RuleConfidenceOrg)

(***************************************************************************)
(* mergeConsecutiveTokens and extractEntities (server.js 90-181).  The     *)
(* token-classification capability is an input: ner.ok says whether the    *)
(* call returned, ner.tokens is what it returned.  Scores and confidences  *)
(* are in hundredths (0.6 is 60).                                          *)
(***************************************************************************)
IndexOfLit(s, lit, i) ==
  FirstOf({j \in i..Len(s) - Len(lit) + 1 : LitAt(s, j, lit)})

\* s.replace(lit, '') with a string pattern: the first occurrence only
RemoveFirst(s, lit) ==
  IF IndexOfLit(s, lit, 1) = 0 THEN s
  ELSE SubSeq(s, 1, IndexOfLit(s, lit, 1) - 1)
         \o SubSeq(s, IndexOfLit(s, lit, 1) + Len(lit), Len(s))

\* entity.entity.replace('B-', '').replace('I-', '')
TokenLabel(entity) == RemoveFirst(RemoveFirst(entity, "B-"), "I-")

\* entity.word.replace(/^##/, '')
CleanToken(word) == IF LitAt(word, 1, "##") THEN SubSeq(word, 3, Len(word)) ELSE word

EntityLabels == {"PERSON", "ORG", "LOC", "MISC"}

\* the names the object groupedEntities inherits from Object.prototype
InheritedNames ==
  {"constructor", "__proto__", "hasOwnProperty", "isPrototypeOf",
   "propertyIsEnumerable", "toLocaleString", "toString", "valueOf",
   "__defineGetter__", "__defineSetter__", "__lookupGetter__",
   "__lookupSetter__"}

\* groupedEntities[label] is truthy: one of the four groups, or a name that is
\* inherited
HasGroup(label) == label \in EntityLabels \cup InheritedNames

NerThreshold == 60

\* the tokens that pass the test of line 110
KeptTokens(entities) ==
  SelectSeq(entities,
            LAMBDA e : HasGroup(TokenLabel(e.entity)) /\ e.score > NerThreshold)

\* .map(...) at lines 112-118
MappedTokens(kept) ==
  [k \in 1..Len(kept) |->
     [text       |-> CleanToken(kept[k].word),
      label      |-> TokenLabel(kept[k].entity),
      confidence |-> kept[k].score,
      start      |-> kept[k].start,
      end        |-> kept[k].end]]

processedTokens(entities) == MappedTokens(KeptTokens(entities))

MergeGap == 2

Max(a, b) == IF a >= b THEN a ELSE b

\* a variant that merges whatever the distance
SameLabel(token, current) == token.label = current.label

\* if (token.label === current.label && token.start <= current.end + 2)
MergesInto(token, current) ==
  token.label = current.label /\ token.start <= current.end + MergeGap

\* the for loop of mergeConsecutiveTokens from index i on, with its current
RECURSIVE MergeFrom(_, _, _)
MergeFrom(tokens, i, current) ==
  IF i > Len(tokens) THEN <<current>>
  ELSE IF MergesInto(tokens[i], current)
       THEN MergeFrom(tokens, i + 1,
              [current EXCEPT !.text = @ \o tokens[i].text,
                              !.end = tokens[i].end,
                              !.confidence = Max(@, tokens[i].confidence)])
       ELSE <<current>> \o MergeFrom(tokens, i + 1, tokens[i])

mergeConsecutiveTokens(tokens) ==
  IF Len(tokens) = 0 THEN <<>> ELSE MergeFrom(tokens, 2, tokens[1])

\* a variant without the additional filtering of person names
GroupedByLabel(merged, label) == SelectSeq(merged, LAMBDA e : e.label = label)

\* groupedEntities[entity.label].push(entity) at line 131 throws a TypeError
\* on an entity whose label is an inherited name: what the name gives has no
\* push
Thrown == [thrown |-> "TypeError"]

GroupingThrows(merged) ==
  \E k \in 1..Len(merged) : merged[k].label \in InheritedNames

\* the entities the forEach of lines 125-136 puts into group label
GroupedPrimary(merged, label) ==
  IF GroupingThrows(merged) THEN Thrown
  ELSE SelectSeq(merged,
         LAMBDA e : e.label = label
                    /\ (label = "PERSON" => isValidPersonName(e.text)))

\* a variant that never turns to the rules
PrimaryOnly(group, rulePersons) == group

\* if (groupedEntities.PERSON.length === 0) at line 139
PersonGroup(group, rulePersons) == IF Len(group) = 0 THEN rulePersons ELSE group

\* groupedEntities after a token classification that returned
GroupedEntities(merged, rulePersons) ==
  IF GroupingThrows(merged) THEN Thrown
  ELSE [PERSON |-> PersonGroup(GroupedPrimary(merged, "PERSON"), rulePersons),
        ORG    |-> GroupedPrimary(merged, "ORG"),
        LOC    |-> GroupedPrimary(merged, "LOC"),
        MISC   |-> GroupedPrimary(merged, "MISC")]

\* a variant whose catch block gives up on every group
AllGroupsEmpty(text, rulePersons) ==
  [PERSON |-> <<>>, ORG |-> <<>>, LOC |-> <<>>, MISC |-> <<>>]

\* the catch block of lines 147-155
RuleBasedEntities(text, rulePersons) ==
  [PERSON |-> rulePersons,
   ORG    |-> extractOrganizationsRuleBased(text),
   LOC    |-> <<>>,
   MISC   |-> <<>>]

\* the try block returns unless the call or the grouping throws; the catch
\* block of line 145 returns the entities of the rules
EntitiesFrom(text, ok, merged, rulePersons) ==
  IF ok /\ ~GroupingThrows(merged)
  THEN GroupedEntities(merged, rulePersons)
  ELSE RuleBasedEntities(text, rulePersons)

EntitiesWith(text, ner, rulePersons) ==
  EntitiesFrom(text, ner.ok, mergeConsecutiveTokens(processedTokens(ner.tokens)),
               rulePersons)

extractEntities(text, ner) ==
  EntitiesWith(text, ner, extractPersonNamesRuleBased(text))

(***************************************************************************)
(* The local stage of generateSummary (server.js 581-651): the structured  *)
(* block, and whether the abstractive capability is asked to add to it.    *)
(***************************************************************************)
\* Array.prototype.join
join(seq, sep) ==
  Concat([k \in 1..Len(seq) |-> IF k = 1 THEN seq[k] ELSE sep \o seq[k]])

MaxTopics == 5
MinPointLength == 30
MaxPointLength == 150
MinStructuredLength == 200

LocalModelName == "Enhanced Local Processing + Xenova/distilbart-cnn-12-6"

\* the segments that go into speakerContent
PointSegments(segments) ==
  SelectSeq(segments,
            LAMBDA g : g.speaker # NULL /\ Len(g.content) > MinPointLength)

\* contents[0] of a speaker
FirstPoint(points, speaker) ==
  SelectSeq(points, LAMBDA g : g.speaker = speaker)[1].content

KeyPointLine(speaker, content) ==
  "- " \o speaker \o ": " \o SubSeq(content, 1, Max(0, IF Len(content) > MaxPointLength THEN MaxPointLength ELSE Len(content)))
       \o (IF Len(content) > MaxPointLength THEN "..." ELSE "") \o "\n"

\* the speakers of speakerContent, in the order of their first segment
PointSpeakers(points) == Unique([k \in 1..Len(points) |-> points[k].speaker])

\* topics.slice(0, 5)
TopTopics(topics) ==
  SubSeq(topics, 1, IF Len(topics) > MaxTopics THEN MaxTopics ELSE Len(topics))

\* enhancedSummary as it stands at line 631
BlockText(context, speakers, topics, points, order) ==
  (IF ~Falsy(context) THEN context \o "\n\n" ELSE "")
  \o "Meeting Overview: "
  \o (IF Len(speakers) > 0
      THEN "This meeting involved " \o join(speakers, ", ") \o " "
      ELSE "")
  \o (IF Len(topics) > 0
      THEN "discussing key topics including " \o join(TopTopics(topics), ", ")
             \o "."
      ELSE "discussing various business matters.")
  \o "\n\n"
  \o "Key Discussion Points:\n"
  \o join([k \in 1..Len(order) |->
             KeyPointLine(order[k], FirstPoint(points, order[k]))], "")

BlockOfPoints(context, speakers, topics, points) ==
  BlockText(context, speakers, topics, points, PointSpeakers(points))

BlockOfParsed(context, parsed) ==
  BlockOfPoints(context, parsed.speakers, extractKeyTopics(parsed.segments),
                PointSegments(parsed.segments))

StructuredBlock(text, context) == BlockOfParsed(context, parseTranscript(text))

\* if (enhancedSummary.length < 200)
NeedsAbstractive(enhancedSummary) == Len(enhancedSummary) < MinStructuredLength

(***************************************************************************)
(* The result of generateSummary (server.js 562-656) and of                *)
(* summarizeWithCustomModel (server.js 663-706).  A JSON object is a       *)
(* record; a field it does not have is undefined.                          *)
(***************************************************************************)
\* apiResult.summary, apiResult.model_used, apiResult.error
Field(object, name) == IF name \in DOMAIN object THEN object[name] ELSE UNDEFINED

\* a JSON or request value whose type the code does not fix: absent, null, a
\* boolean, a number or a string
JsUndefined == [type |-> "undefined"]
JsNull == [type |-> "null"]
JsBoolean(b) == [type |-> "boolean", truth |-> b]
JsNumber(n) == [type |-> "number", value |-> n]
JsString(str) == [type |-> "string", value |-> str]

\* the truthiness of a value, as || and the condition of an if take it
Truthy(flag) ==
  \/ flag.type = "boolean" /\ flag.truth
  \/ flag.type = "number" /\ flag.value # 0
  \/ flag.type = "string" /\ flag.value # ""

\* apiResult.fallback_used || false: the value of the field itself when it is
\* truthy, the boolean false when the field is absent or falsy
FallbackFlag(apiResult) ==
  IF "fallback_used" \in DOMAIN apiResult /\ Truthy(apiResult.fallback_used)
  THEN apiResult.fallback_used
  ELSE JsBoolean(FALSE)

\* The outcome of the remote call: fetch throws (kind "transport"), the status
\* is not 2xx (kind "status"), or the body parses to the object body (kind
\* "json").  summarizeWithCustomModel throws in the first two cases and when
\* the object has a truthy error field.
RemoteFailed(outcome) ==
  \/ outcome.kind \in {"transport", "status"}
  \/ outcome.kind = "json" /\ ~Falsy(Field(outcome.body, "error"))

\* a variant that drops the flag of the remote response
RemoteResultUnflagged(apiResult) ==
  [summary      |-> Field(apiResult, "summary"),
   modelUsed    |-> Field(apiResult, "model_used"),
   fallbackUsed |-> JsBoolean(FALSE)]

\* what generateSummary returns when the remote call succeeds
RemoteResult(apiResult) ==
  [summary      |-> Field(apiResult, "summary"),
   modelUsed    |-> Field(apiResult, "model_used"),
   fallbackUsed |-> FallbackFlag(apiResult)]

\* enhancedSummary += `\n\nAI Summary: ${summaryResult[0].summary_text}`
WithAbstractive(block, summaryText) == block \o "\n\nAI Summary: " \o summaryText

\* a variant that returns the flag as it was initialised at line 564
LocalResultUnflagged(enhancedSummary) ==
  [summary      |-> enhancedSummary,
   modelUsed    |-> LocalModelName,
   fallbackUsed |-> JsBoolean(FALSE)]

\* what generateSummary returns from its local stage
LocalResult(enhancedSummary) ==
  [summary      |-> enhancedSummary,
   modelUsed    |-> LocalModelName,
   fallbackUsed |-> JsBoolean(TRUE)]

AllModelsFailedMessage ==
  "All summarization models failed. Please check your setup."

\* a variant that tries the remote model whatever the flag
AlwaysRemote(useCustomModel) == TRUE

\* if (useCustomModel) at line 567
RemoteWanted(useCustomModel) == useCustomModel

(***************************************************************************)
(* generateFallbackSummary (server.js 779-787)                             *)
(***************************************************************************)
MinTranscriptLength == 20
MinCleanedLength == 10

TooShortMessage == "The audio is too short. No meaningful conversation detected."

UnclearMessage ==
  "This audio mainly contains background sounds or unclear speech."

\* a variant that never finds a transcript too short
NoFallbackSummary(originalTranscript, cleanedTranscript) == NULL

generateFallbackSummary(originalTranscript, cleanedTranscript) ==
  IF Falsy(originalTranscript) \/ Len(trim(originalTranscript)) < MinTranscriptLength
  THEN TooShortMessage
  ELSE IF Falsy(cleanedTranscript) \/ Len(cleanedTranscript) < MinCleanedLength
       THEN UnclearMessage
       ELSE NULL

(***************************************************************************)
(* The removal of duplicate tasks in /upload (server.js 860-862)           *)
(***************************************************************************)
\* a variant that compares the texts as they are
ExactKey(task) == task.text

\* t.text.toLowerCase().trim()
TaskKey(task) == trim(toLowerCase(task.text))

\* the elements of seq at the indices of keep, in order
AtIndices(seq, keep) ==
  [n \in 1..Cardinality(keep) |->
     seq[CHOOSE k \in keep : Cardinality({m \in keep : m < k}) = n - 1]]

\* extractedTasks.filter((task, index, self) =>
\*   index === self.findIndex(t => key(t) === key(task)))
KeptIndices(extractedTasks) ==
  {k \in 1..Len(extractedTasks) :
     \A m \in 1..k - 1 : TaskKey(extractedTasks[m]) # TaskKey(extractedTasks[k])}

uniqueTasks(extractedTasks) == AtIndices(extractedTasks, KeptIndices(extractedTasks))

(***************************************************************************)
(* What the world gives the server: request fields, transcriptions, and    *)
(* the answers of the remote summarizer, the abstractive summarizer and    *)
(* the token classifier.                                                   *)
(***************************************************************************)
MaxRequests == 2

\* const { useCustomModel = true } = req.body
WithDefaultTrue(flag) == IF flag.type = "undefined" THEN JsBoolean(TRUE) ELSE flag

\* useCustomModel === "true" in /upload
IsStringTrue(flag) == flag.type = "string" /\ flag.value = "true"

ShortTalk == "Hi there. "

RepeatedTalk ==
  " We will review the contract (pause). We will review the contract. "

TeamTalk ==
  "Alice: We will schedule the launch by Friday. Bob: I will follow up with Carol on the budget."

NoisyTalk == "(background noise) (a door slams) hm"

TranscriberTexts == {ShortTalk, NoisyTalk, RepeatedTalk, TeamTalk}

TestTexts == {"", "We will review the contract. We will review the contract."}

Contexts == {UNDEFINED, "Weekly sync"}

UploadFlags == {JsUndefined, JsString("true")}

TestFlags == {JsUndefined, JsBoolean(FALSE), JsString("false")}

RemoteSummary == "The team will review the contract."

\* the JSON bodies of the remote summarizer: without fallback_used, with a
\* truthy one, with one that is present and falsy, without a summary, and
\* with an error
ApiBodies ==
  {[summary |-> RemoteSummary, model_used |-> "custom-bart"],
   [summary |-> RemoteSummary, model_used |-> "bart-large-cnn",
    fallback_used |-> JsBoolean(TRUE)],
   [summary |-> RemoteSummary, model_used |-> "custom-bart",
    fallback_used |-> JsNull],
   [model_used |-> "custom-bart"],
   [error |-> "Model not loaded"]}

\* what the body of a response turns out to be: the text of one that is not
\* ok, or the JSON of one that is
BodyOutcomes ==
  {[kind |-> "status"]} \cup {[kind |-> "json", body |-> b] : b \in ApiBodies}

AbstractiveText == "Bob must send the final report."

\* the abstractive call throws, returns an empty array (reading
\* summaryResult[0].summary_text then throws a TypeError inside the same try
\* block) or returns a one-element array
AbstractiveOutcomes ==
  {[ok |-> FALSE, result |-> <<>>],
   [ok |-> TRUE, result |-> <<>>],
   [ok |-> TRUE, result |-> <<[summary_text |-> AbstractiveText]>>]}

NamedTokens ==
  <<[entity |-> "B-PERSON", word |-> "Al", score |-> 97, start |-> 0, end |-> 2],
    [entity |-> "I-PERSON", word |-> "##ice", score |-> 95, start |-> 2, end |-> 5],
    [entity |-> "B-ORG", word |-> "Acme", score |-> 88, start |-> 20, end |-> 24]>>

NerOutcomes ==
  {[ok |-> FALSE, tokens |-> <<>>],
   [ok |-> TRUE, tokens |-> NamedTokens]}

(***************************************************************************)
(* The values of the text functions on the texts above, computed once.     *)
(***************************************************************************)
\* result.text.trim(), cleanTranscript(transcription) and
\* generateFallbackSummary(transcription, cleanedTranscript) in /upload
Heard ==
  Tabulated([raw \in TranscriberTexts |->
     [transcription |-> trim(raw),
      cleaned       |-> cleanTranscript(trim(raw)),
      fallbackMsg   |-> generateFallbackSummary(trim(raw),
                                                cleanTranscript(trim(raw)))]])

\* the texts that reach generateSummary
PipelineTexts ==
  {Heard[raw].cleaned : raw \in {x \in TranscriberTexts : Heard[x].fallbackMsg = NULL}}
    \cup (TestTexts \ {""})

BlockOf ==
  Tabulated([text \in PipelineTexts |->
     Tabulated([context \in Contexts |-> StructuredBlock(text, context)])])

\* the summaries generateSummary can return
SummaryTexts ==
  {RemoteSummary}
    \cup {BlockOf[t][c] : t \in PipelineTexts, c \in Contexts}
    \cup {WithAbstractive(BlockOf[t][c], AbstractiveText) :
            t \in PipelineTexts, c \in Contexts}

TaskFieldsOf ==
  Tabulated([text \in PipelineTexts \cup SummaryTexts |-> TaskFields(text)])

\* the indices the removal of duplicates keeps, of the tasks of a transcript
\* followed by those of its summary
KeptOf ==
  Tabulated([text \in PipelineTexts |->
     Tabulated([summary \in SummaryTexts |->
        KeptIndices(TaskFieldsOf[text] \o TaskFieldsOf[summary])])])

EntitiesOf ==
  Tabulated([text \in PipelineTexts |->
     Tabulated([outcome \in NerOutcomes |-> extractEntities(text, outcome)])])

(***************************************************************************)
(* Requests.  reqs holds one record per request, in the order the requests *)
(* were received; pc is the await at which the handler is suspended, or    *)
(* "done" once it has answered: "convert" is await convertToWav (line      *)
(* 827), "transcribe" await transcriber (833), "remote" await fetch (665), *)
(* "text" await response.text() (682), "json" await response.json()       *)
(* (686), "abstractive" await fallbackSummarizer (633) and "ner" await     *)
(* nerModel (92).                                                          *)
(***************************************************************************)
NoRemote == [kind |-> "none"]
NoAbstractive == [called |-> FALSE]
NoSummary == [pending |-> TRUE]
NoBody == [pending |-> TRUE]

\* the client of a request is still connected
Connected == [gone |-> FALSE]

\* `Meeting ${new Date().toLocaleDateString()}`
DefaultTitle == "Meeting <date>"

\* the message of the TypeError of reading req.file.path without a file
NoFileMessage == "Cannot read properties of undefined (reading 'path')"

\* the message of the TypeError of undefined.split in extractTasksFromText
NoSplitMessage == "Cannot read properties of undefined (reading 'split')"

\* the message of whatever convertToWav or the transcriber rejects with
TranscriberMessage == "transcription failed"

NewRequest(kind, context, flag) ==
  [kind |-> kind, pc |-> "convert", context |-> context, flag |-> flag,
   transcription |-> "", text |-> "", preferRemote |-> FALSE,
   remote |-> NoRemote, abstractive |-> NoAbstractive, log |-> <<>>,
   sum |-> NoSummary, caller |-> Connected,
   target |-> 0, status |-> 0, body |-> NoBody]

\* res.status(code).json(body): the handler has answered
Answer(r, code, body) == [r EXCEPT !.pc = "done", !.status = code, !.body = body]

\* a variant in which the catch of line 576 rethrows
FailRun(r) == Answer(r, 500, [error |-> AllModelsFailedMessage])

\* the local stage of generateSummary up to its await, or to its return when
\* the structured block is long enough (lines 582-651)
StartLocal(r) ==
  IF NeedsAbstractive(BlockOf[r.text][r.context])
  THEN [r EXCEPT !.pc = "abstractive", !.log = r.log \o <<"local", "abstractive">>]
  ELSE [r EXCEPT !.pc = "ner", !.log = r.log \o <<"local">>,
                 !.sum = LocalResult(BlockOf[r.text][r.context])]

\* generateSummary(text, context, useCustomModel) up to its first await
EnterSummary(r, text, useCustomModel) ==
  LET q == [r EXCEPT !.text = text, !.preferRemote = useCustomModel]
  IN  IF RemoteWanted(useCustomModel)
      THEN [q EXCEPT !.pc = "remote", !.log = <<"remote">>]
      ELSE StartLocal(q)

(***************************************************************************)
(* The handlers.  A handler runs without interruption from one await to    *)
(* the next; each action below is one such run.                            *)
(***************************************************************************)
ServerInit ==
  /\ meetings = <<>>
  /\ tasks = <<>>
  /\ heap = <<>>
  /\ meetingIdCounter = 1
  /\ taskIdCounter = 1
  /\ reqs = <<>>
  /\ wallClock = EarlyInstant

Suspended(n, pc) == n \in 1..Len(reqs) /\ reqs[n].pc = pc

\* POST /upload up to its first await (lines 819-827)
ReceiveUpload(hasFile, context, flag) ==
  /\ Len(reqs) < MaxRequests
  /\ LET r == [NewRequest("upload", context, flag) EXCEPT
                 !.preferRemote = IsStringTrue(WithDefaultTrue(flag))]
     IN  reqs' = Append(reqs,
                   IF hasFile THEN r
                   ELSE Answer(r, 500, [error |-> NoFileMessage]))
  /\ UNCHANGED <<stores, wallClock, arg, res>>

\* /upload from the end of the conversion to the await of the transcriber, or
\* to the answer of the catch when the conversion has failed (lines 827-833,
\* 895-897)
Converted(n, ok) ==
  /\ Suspended(n, "convert")
  /\ reqs' = [reqs EXCEPT ![n] =
       IF ok THEN [reqs[n] EXCEPT !.pc = "transcribe"]
       ELSE Answer(reqs[n], 500, [error |-> TranscriberMessage])]
  /\ UNCHANGED <<stores, wallClock, arg, res>>

\* /upload from the transcription to the first await of generateSummary, or
\* to the early answer (lines 833-846)
Transcribed(n, outcome) ==
  /\ Suspended(n, "transcribe")
  /\ LET r == reqs[n]
         h == Heard[outcome.text]
         q == [r EXCEPT !.transcription = h.transcription]
     IN  reqs' = [reqs EXCEPT ![n] =
           IF ~outcome.ok THEN Answer(r, 500, [error |-> TranscriberMessage])
           ELSE IF h.fallbackMsg # NULL
                THEN Answer(q, 200, [transcription |-> h.transcription,
                                     summary |-> h.fallbackMsg])
                ELSE EnterSummary(q, h.cleaned, r.preferRemote)]
  /\ UNCHANGED <<stores, wallClock, arg, res>>

\* POST /test-summary up to the first await of generateSummary (lines 909-914)
ReceiveTestSummary(text, context, flag) ==
  /\ Len(reqs) < MaxRequests
  /\ LET r == NewRequest("test", context, flag)
     IN  reqs' = Append(reqs,
                   IF Falsy(text)
                   THEN Answer(r, 400, [error |-> "Text is required"])
                   ELSE EnterSummary(r, text, Truthy(WithDefaultTrue(flag))))
  /\ UNCHANGED <<stores, wallClock, arg, res>>

\* what fetch does: it rejects, or it resolves with a response that is ok or
\* that is not
FetchOutcomes == {"rejected", "not ok", "ok"}

\* summarizeWithCustomModel from the end of fetch to the await of the body of
\* the response, or, when fetch has rejected, generateSummary to its return
\* or to the await of its local stage (lines 665-686, 702-705, 575-632)
Fetched(n, response) ==
  /\ Suspended(n, "remote")
  /\ reqs' = [reqs EXCEPT ![n] =
       IF response = "rejected"
       THEN StartLocal([reqs[n] EXCEPT !.remote = [kind |-> "transport"]])
       ELSE [reqs[n] EXCEPT !.pc = IF response = "ok" THEN "json" ELSE "text"]]
  /\ UNCHANGED <<stores, wallClock, arg, res>>

\* the await at which the body of a response is read: the text of one that
\* is not ok, the JSON of one that is
BodyAwait(outcome) == IF outcome.kind = "status" THEN "text" ELSE "json"

\* generateSummary from the arrival of the body of the response to its return
\* or to the await of its local stage (lines 569-632, 682-705)
RemoteReturns(n, outcome) ==
  /\ Suspended(n, BodyAwait(outcome))
  /\ LET r == [reqs[n] EXCEPT !.remote = outcome]
     IN  reqs' = [reqs EXCEPT ![n] =
           IF RemoteFailed(outcome) THEN StartLocal(r)
           ELSE [r EXCEPT !.pc = "ner", !.sum = RemoteResult(outcome.body)]]
  /\ UNCHANGED <<stores, wallClock, arg, res>>

\* generateSummary from the end of the abstractive call to its return or its
\* throw, which the handler answers with 500 (lines 633-655, 895-897, 928-930)
AbstractiveReturns(n, outcome) ==
  /\ Suspended(n, "abstractive")
  /\ LET r == [reqs[n] EXCEPT !.abstractive = outcome]
     IN  reqs' = [reqs EXCEPT ![n] =
           IF outcome.ok /\ Len(outcome.result) >= 1
           THEN [r EXCEPT !.pc = "ner",
                          !.sum = LocalResult(
                                    WithAbstractive(BlockOf[r.text][r.context],
                                                    outcome.result[1].summary_text))]
           ELSE Answer(r, 500, [error |-> AllModelsFailedMessage])]
  /\ UNCHANGED <<stores, wallClock, arg, res>>

\* The client of request n closes its connection while generateSummary is
\* suspended at one of its awaits.  Neither the handlers nor generateSummary
\* listen for it (there is no 'close' handler and no abort signal in lines
\* 562-656, 819-931): the only trace is what the run had entered by then.
CallerLeaves(n) ==
  /\ n \in 1..Len(reqs)
  /\ reqs[n].pc \in {"remote", "text", "json", "abstractive"}
  /\ reqs[n].caller = Connected
  /\ reqs' = [reqs EXCEPT ![n].caller = [gone |-> TRUE, log |-> reqs[n].log]]
  /\ UNCHANGED <<stores, wallClock, arg, res>>

\* task.meetingId = meeting.id, on the task object the meeting and the global
\* list share
WithMeetingId(task, meetingId) ==
  [id            |-> task.id,
   text          |-> task.text,
   assignedTo    |-> task.assignedTo,
   deadline      |-> task.deadline,
   priority      |-> task.priority,
   extractedFrom |-> task.extractedFrom,
   status        |-> task.status,
   createdAt     |-> task.createdAt,
   meetingId     |-> meetingId,
   updatedAt     |-> UNDEFINED]

\* the objects the references of refs point to, as JSON serialises them
Deref(refs) == [k \in 1..Len(refs) |-> heap[refs[k]]]

\* /upload from the end of the token classification to its answer (lines
\* 850-897), in the order of the code: the tasks are stored and answered as
\* stored (with their meetingId), under the references refs
StoredTasks(kept, meetingId) ==
  [k \in 1..Len(kept) |-> WithMeetingId(kept[k], meetingId)]

NewRefs(kept) == [k \in 1..Len(kept) |-> Len(heap) + k]

\* the meeting object of lines 865-876
NewMeeting(id, r, entities, refs, now) ==
  [id           |-> id,
   title        |-> IF Falsy(r.context) THEN DefaultTitle ELSE r.context,
   transcript   |-> r.transcription,
   summary      |-> r.sum.summary,
   entities     |-> entities,
   tasks        |-> refs,
   context      |-> r.context,
   createdAt    |-> now,
   modelUsed    |-> r.sum.modelUsed,
   fallbackUsed |-> r.sum.fallbackUsed]

\* the body of lines 885-893
UploadBody(r, entities, stored) ==
  [transcription |-> r.transcription,
   summary       |-> r.sum.summary,
   entities      |-> entities,
   tasks         |-> stored,
   meetingId     |-> meetingIdCounter,
   modelUsed     |-> r.sum.modelUsed,
   fallbackUsed  |-> r.sum.fallbackUsed]

\* lines 865-893: the meeting and its tasks are stored and the answer is sent
UploadStores(n, r, entities, stored, refs, now) ==
  /\ meetingIdCounter' = meetingIdCounter + 1
  /\ meetings' = Append(meetings,
                        NewMeeting(meetingIdCounter, r, entities, refs, now))
  /\ heap' = heap \o stored
  /\ tasks' = tasks \o refs
  /\ reqs' = [reqs EXCEPT ![n] = Answer(r, 200, UploadBody(r, entities, stored))]

\* lines 860-862: uniqueTasks, which depends on the texts of the tasks only
UploadKeeps(n, r, entities, kept, now) ==
  UploadStores(n, r, entities, StoredTasks(kept, meetingIdCounter),
               NewRefs(kept), now)

\* lines 856-876: both extractions have returned; the meeting is built after
\* them and takes the reading of the clock now
UploadExtracted(n, r, entities, first, second, now) ==
  /\ taskIdCounter' = taskIdCounter + Len(first) + Len(second)
  /\ UploadKeeps(n, r, entities,
                 AtIndices(first \o second, KeptOf[r.text][r.sum.summary]), now)

\* a variant that stores the meeting before the second extraction throws
StoreThenFail(n, r, entities, first, clock) ==
  IF r.sum.summary = UNDEFINED
  THEN /\ reqs' = [reqs EXCEPT ![n] = Answer(r, 500, [error |-> NoSplitMessage])]
       /\ taskIdCounter' = taskIdCounter + Len(first)
       /\ meetingIdCounter' = meetingIdCounter + 1
       /\ meetings' = Append(meetings,
            NewMeeting(meetingIdCounter, r, entities, <<>>, LateInstant))
       /\ UNCHANGED <<tasks, heap>>
  ELSE UploadExtracted(n, r, entities, first,
         NumberTasks(TaskFieldsOf[r.sum.summary], taskIdCounter + Len(first),
                     LaterReadings(clock, Len(first))),
         clock[Len(clock)])

\* line 857: extractTasksFromText(summaryResult.summary) throws a TypeError on
\* a summary that is undefined, after the first extraction has moved
\* taskIdCounter; the catch of line 895 answers 500
UploadSecond(n, r, entities, first, clock) ==
  IF r.sum.summary = UNDEFINED
  THEN /\ reqs' = [reqs EXCEPT ![n] = Answer(r, 500, [error |-> NoSplitMessage])]
       /\ taskIdCounter' = taskIdCounter + Len(first)
       /\ UNCHANGED <<meetings, tasks, heap, meetingIdCounter>>
  ELSE UploadExtracted(n, r, entities, first,
         NumberTasks(TaskFieldsOf[r.sum.summary], taskIdCounter + Len(first),
                     LaterReadings(clock, Len(first))),
         clock[Len(clock)])

\* the first extraction takes the first readings of the clock, the second the
\* ones after them, and the meeting the last
UploadCompletes(n, r, entities, clock) ==
  UploadSecond(n, r, entities,
               NumberTasks(TaskFieldsOf[r.text], taskIdCounter, clock), clock)

\* the body of lines 919-926
TestBody(r, entities, extractedTasks) ==
  [original_text |-> r.text,
   summary       |-> r.sum.summary,
   entities      |-> entities,
   tasks         |-> extractedTasks,
   modelUsed     |-> r.sum.modelUsed,
   fallbackUsed  |-> r.sum.fallbackUsed]

TestAnswers(n, r, entities, extractedTasks) ==
  /\ taskIdCounter' = taskIdCounter + Len(extractedTasks)
  /\ reqs' = [reqs EXCEPT ![n] = Answer(r, 200, TestBody(r, entities, extractedTasks))]
  /\ UNCHANGED <<meetings, tasks, heap, meetingIdCounter>>

\* /test-summary from the end of the token classification to its answer
\* (lines 917-927)
TestCompletes(n, r, entities, clock) ==
  TestAnswers(n, r, entities,
              NumberTasks(TaskFieldsOf[r.text], taskIdCounter, clock))

HandlerCompletes(n, r, entities, clock) ==
  IF r.kind = "upload" THEN UploadCompletes(n, r, entities, clock)
  ELSE TestCompletes(n, r, entities, clock)

\* how many times the rest of the handler reads the clock: once for every task
\* of the text, and in /upload with a summary once for every task of the
\* summary and once for the meeting
ReadingsOf(r) ==
  IF r.kind = "upload" /\ r.sum.summary # UNDEFINED
  THEN Len(TaskFieldsOf[r.text]) + Len(TaskFieldsOf[r.sum.summary]) + 1
  ELSE Len(TaskFieldsOf[r.text])

\* extractEntities returns (it never throws) and the handler runs to its end
NerReturns(n, outcome) ==
  /\ Suspended(n, "ner")
  /\ \E clock \in Clocks(ReadingsOf(reqs[n])) :
       /\ HandlerCompletes(n, reqs[n], EntitiesOf[reqs[n].text][outcome], clock)
       /\ wallClock' = LastReading(clock)
  /\ UNCHANGED <<arg, res>>

\* what a PATCH body may carry in status and in assignedTo
PatchStatuses == {UNDEFINED, "whatever"}
PatchAssignees == {UNDEFINED, "Dana"}

\* the ids a client may name: those of the stored objects and one of none
KnownTaskIds == {heap[tasks[k]].id : k \in 1..Len(tasks)} \cup {taskIdCounter}
KnownMeetingIds == {meetings[k].id : k \in 1..Len(meetings)} \cup {meetingIdCounter}

\* a request whose handler answers without awaiting anything
Immediate(kind, target, code, body) ==
  [Answer(NewRequest(kind, UNDEFINED, JsUndefined), code, body)
     EXCEPT !.target = target]

\* tasks.findIndex(t => t.id === taskId), 0 for -1
TaskIndex(taskId) ==
  FirstOf({k \in 1..Len(tasks) : heap[tasks[k]].id = taskId})

\* meetings.findIndex(m => m.id === meetingId), 0 for -1
MeetingIndex(meetingId) ==
  FirstOf({k \in 1..Len(meetings) : meetings[k].id = meetingId})

\* the sequence without its element at index
RemoveAt(seq, index) ==
  [k \in 1..Len(seq) - 1 |-> IF k < index THEN seq[k] ELSE seq[k + 1]]

\* a stored meeting as JSON serialises it
MeetingJson(meeting) == [meeting EXCEPT !.tasks = Deref(meeting.tasks)]

\* GET /meetings (lines 937-939)
GetMeetings ==
  /\ Len(reqs) < MaxRequests
  /\ reqs' = Append(reqs, Immediate("getMeetings", 0, 200,
               [k \in 1..Len(meetings) |-> MeetingJson(meetings[k])]))
  /\ UNCHANGED <<stores, wallClock, arg, res>>

\* GET /meetings/:id (lines 941-947)
GetMeeting(meetingId) ==
  /\ Len(reqs) < MaxRequests
  /\ reqs' = Append(reqs,
       IF MeetingIndex(meetingId) = 0
       THEN Immediate("getMeeting", meetingId, 404, [error |-> "Meeting not found"])
       ELSE Immediate("getMeeting", meetingId, 200,
              MeetingJson(meetings[MeetingIndex(meetingId)])))
  /\ UNCHANGED <<stores, wallClock, arg, res>>

\* GET /tasks (lines 949-951)
GetTasks ==
  /\ Len(reqs) < MaxRequests
  /\ reqs' = Append(reqs, Immediate("getTasks", 0, 200, Deref(tasks)))
  /\ UNCHANGED <<stores, wallClock, arg, res>>

\* PATCH /tasks/:id (lines 953-967)
PatchTask(taskId, status, assignedTo, now) ==
  /\ Len(reqs) < MaxRequests
  /\ LET index == TaskIndex(taskId)
         ref == tasks[index]
         task == heap[ref]
         patched == [task EXCEPT
                       !.status = IF Falsy(status) THEN task.status ELSE status,
                       !.assignedTo = IF assignedTo = UNDEFINED THEN task.assignedTo
                                      ELSE assignedTo,
                       !.updatedAt = now]
     IN  IF index = 0
         THEN /\ reqs' = Append(reqs, Immediate("patchTask", taskId, 404,
                           [error |-> "Task not found"]))
              /\ UNCHANGED <<heap, wallClock>>
         ELSE /\ heap' = [heap EXCEPT ![ref] = patched]
              /\ wallClock' = now
              /\ reqs' = Append(reqs, Immediate("patchTask", taskId, 200, patched))
  /\ UNCHANGED <<meetings, tasks, meetingIdCounter, taskIdCounter, arg, res>>

\* DELETE /tasks/:id (lines 969-979)
DeleteTask(taskId) ==
  /\ Len(reqs) < MaxRequests
  /\ LET index == TaskIndex(taskId)
     IN  IF index = 0
         THEN /\ reqs' = Append(reqs, Immediate("deleteTask", taskId, 404,
                           [error |-> "Task not found"]))
              /\ UNCHANGED tasks
         ELSE /\ tasks' = RemoveAt(tasks, index)
              /\ reqs' = Append(reqs, Immediate("deleteTask", taskId, 200,
                           [message |-> "Task deleted successfully"]))
  /\ UNCHANGED <<meetings, heap, meetingIdCounter, taskIdCounter, wallClock, arg, res>>

\* a variant that leaves the global list of tasks as it is
AllTasks(meetingId) == tasks

\* tasks.filter(t => t.meetingId !== meetingId)
TasksOutside(meetingId) ==
  SelectSeq(tasks, LAMBDA ref : heap[ref].meetingId # meetingId)

\* DELETE /meetings/:id (lines 981-992)
DeleteMeeting(meetingId) ==
  /\ Len(reqs) < MaxRequests
  /\ LET index == MeetingIndex(meetingId)
     IN  IF index = 0
         THEN /\ reqs' = Append(reqs, Immediate("deleteMeeting", meetingId, 404,
                           [error |-> "Meeting not found"]))
              /\ UNCHANGED <<meetings, tasks>>
         ELSE /\ tasks' = TasksOutside(meetingId)
              /\ meetings' = RemoveAt(meetings, index)
              /\ reqs' = Append(reqs, Immediate("deleteMeeting", meetingId, 200,
                           [message |-> "Meeting and associated tasks deleted successfully"]))
  /\ UNCHANGED <<heap, meetingIdCounter, taskIdCounter, wallClock, arg, res>>

TranscriberOutcomes ==
  {[ok |-> FALSE, text |-> ""]} \cup {[ok |-> TRUE, text |-> raw] : raw \in TranscriberTexts}

Init == ServerInit /\ arg = "" /\ res = NULL

Next ==
  \/ \E hasFile \in BOOLEAN, context \in Contexts, flag \in UploadFlags :
       ReceiveUpload(hasFile, context, flag)
  \/ \E n \in 1..Len(reqs), ok \in BOOLEAN : Converted(n, ok)
  \/ \E n \in 1..Len(reqs), outcome \in TranscriberOutcomes : Transcribed(n, outcome)
  \/ \E text \in TestTexts, context \in Contexts, flag \in TestFlags :
       ReceiveTestSummary(text, context, flag)
  \/ \E n \in 1..Len(reqs), response \in FetchOutcomes : Fetched(n, response)
  \/ \E n \in 1..Len(reqs), outcome \in BodyOutcomes : RemoteReturns(n, outcome)
  \/ \E n \in 1..Len(reqs), outcome \in AbstractiveOutcomes : AbstractiveReturns(n, outcome)
  \/ \E n \in 1..Len(reqs), outcome \in NerOutcomes : NerReturns(n, outcome)
  \/ GetMeetings
  \/ \E meetingId \in KnownMeetingIds : GetMeeting(meetingId)
  \/ GetTasks
  \/ \E taskId \in KnownTaskIds, status \in PatchStatuses,
          assignedTo \in PatchAssignees, now \in Readable :
       PatchTask(taskId, status, assignedTo, now)
  \/ \E taskId \in KnownTaskIds : DeleteTask(taskId)
  \/ \E meetingId \in KnownMeetingIds : DeleteMeeting(meetingId)

Spec == Init /\ [][Next]_vars

(***************************************************************************)
(* Properties of generateSummary, read off the requests: remote is the     *)
(* outcome of the remote call, abstractive that of the abstractive call,   *)
(* log the capabilities and stages the run has entered, sum its result.    *)
(***************************************************************************)
Requests == {reqs[n] : n \in 1..Len(reqs)}

Returned(r) == r.sum # NoSummary

AbstractiveThrew(r) == r.abstractive # NoAbstractive /\ ~r.abstractive.ok

\* the local stage failed: the abstractive call threw, or its result had no
\* first element to read
LocalStageFailed(r) ==
  r.abstractive # NoAbstractive
    /\ (~r.abstractive.ok \/ Len(r.abstractive.result) = 0)

RemoteModelNames == {"custom-bart", "bart-large-cnn"}

\* C1: when the remote model is preferred, the remote call throws and the
\* local stage succeeds, the result has fallbackUsed true and the modelUsed of
\* the local strategy, which is no remote model name.
C1_RemoteThrowsLocalFlagged ==
  \A r \in Requests :
    r.preferRemote /\ RemoteFailed(r.remote) /\ Returned(r)
      => /\ r.sum.fallbackUsed = JsBoolean(TRUE)
         /\ r.sum.modelUsed = LocalModelName
         /\ r.sum.modelUsed \notin RemoteModelNames

C1_Witness ==
  \E r \in Requests :
    /\ r.preferRemote /\ r.remote.kind = "transport" /\ Returned(r)
    /\ r.sum.fallbackUsed = JsBoolean(TRUE)
    /\ r.log = <<"remote", "local", "abstractive">>

RemoteSucceeded(r) == r.remote.kind = "json" /\ ~RemoteFailed(r.remote)

\* the falsy values a JSON body can carry: null, false, 0 and the empty string
FalsyJson == {JsNull, JsBoolean(FALSE), JsNumber(0), JsString("")}

\* the remote response has no fallback_used, or a falsy one
NoFallbackReported(body) ==
  "fallback_used" \notin DOMAIN body \/ body.fallback_used \in FalsyJson

\* C2 as amended: when the remote stage succeeds, the result carries the remote
\* summary unchanged, and fallbackUsed is the remote response's own
\* fallback_used value when that value is truthy, and the boolean false when
\* the response has no fallback_used or a falsy one.
C2_RemoteSuccessVerbatim ==
  \A r \in Requests :
    RemoteSucceeded(r)
      => /\ Returned(r)
         /\ r.sum.summary = Field(r.remote.body, "summary")
         /\ NoFallbackReported(r.remote.body)
              => r.sum.fallbackUsed = JsBoolean(FALSE)
         /\ ~NoFallbackReported(r.remote.body)
              => r.sum.fallbackUsed = r.remote.body.fallback_used

\* two remote successes side by side: one response reported a fallback and the
\* result carries it, the other carried a null fallback_used and the result
\* has the boolean false
C2_Witness ==
  \E r, q \in Requests :
    /\ RemoteSucceeded(r) /\ "fallback_used" \in DOMAIN r.remote.body
    /\ r.remote.body.fallback_used = JsBoolean(TRUE)
    /\ r.sum.summary = RemoteSummary /\ r.sum.fallbackUsed = JsBoolean(TRUE)
    /\ RemoteSucceeded(q) /\ "fallback_used" \in DOMAIN q.remote.body
    /\ q.remote.body.fallback_used = JsNull
    /\ q.sum.summary = RemoteSummary /\ q.sum.fallbackUsed = JsBoolean(FALSE)

\* C2 as written: when the remote stage succeeds, the result carries the remote
\* summary unchanged and fallbackUsed is false, whatever the remote response.
C2_AsWritten ==
  \A r \in Requests :
    RemoteSucceeded(r)
      => /\ Returned(r)
         /\ r.sum.summary = Field(r.remote.body, "summary")
         /\ r.sum.fallbackUsed = JsBoolean(FALSE)

\* the orders in which a run may have entered its stages
StageOrders ==
  {<<>>, <<"remote">>, <<"remote", "local">>, <<"remote", "local", "abstractive">>,
   <<"local">>, <<"local", "abstractive">>}

Entered(r, stage) == \E k \in 1..Len(r.log) : r.log[k] = stage

\* C3: the stages of a run are entered in strict order and each at most once;
\* the remote capability is called only when the remote model is preferred and
\* only first, and the local stage starts only after the remote call has
\* failed or was skipped.
C3_StagesInOrder ==
  \A r \in Requests :
    /\ r.log \in StageOrders
    /\ Entered(r, "remote") => r.preferRemote /\ r.log[1] = "remote"
    /\ Entered(r, "local") =>
         IF Entered(r, "remote") THEN RemoteFailed(r.remote)
         ELSE ~r.preferRemote /\ r.remote = NoRemote
    /\ r.remote # NoRemote => Entered(r, "remote")
    /\ r.abstractive # NoAbstractive => Entered(r, "abstractive")

C3_Witness ==
  \E r \in Requests, q \in Requests :
    /\ r.log = <<"remote", "local", "abstractive">> /\ r.remote.kind = "status"
    /\ r.pc = "done"
    /\ q.log = <<"local">> /\ ~q.preferRemote /\ q.pc = "done"

\* C4: generateSummary fails towards its caller only when its local stage
\* fails; when the local abstractive capability throws, the run ends with the
\* fixed generic message and enters no further stage; a remote failure alone
\* never reaches the caller as an error.
C4_OnlyLocalFailureIsFatal ==
  \A r \in Requests :
    /\ r.pc = "done" /\ ~Returned(r) /\ r.log # <<>> => LocalStageFailed(r)
    /\ AbstractiveThrew(r)
         => /\ r.pc = "done" /\ ~Returned(r) /\ r.status = 500
            /\ r.body = [error |-> "All summarization models failed. Please check your setup."]
            /\ r.log[Len(r.log)] = "abstractive"
    /\ RemoteFailed(r.remote) /\ ~LocalStageFailed(r) /\ r.pc = "done"
         => Returned(r) /\ "error" \notin DOMAIN r.body

C4_Witness ==
  \E r \in Requests, q \in Requests :
    /\ AbstractiveThrew(r) /\ RemoteFailed(r.remote) /\ r.status = 500
    /\ RemoteFailed(q.remote) /\ q.pc = "done" /\ q.status = 200
(***************************************************************************)
(* Properties of the /upload and /test-summary handlers.                   *)
(***************************************************************************)
\* the requests that ran the pipeline to an answer
PipelineAnswers ==
  {r \in Requests : r.kind \in {"upload", "test"} /\ r.pc = "done" /\ r.log # <<>>}

\* C5: in a pipeline run a failure of summarization never prevents the entities
\* and the tasks from being returned, and a failure of entity or task
\* extraction never prevents the summary from being returned.
C5_BranchesIsolated ==
  \A r \in PipelineAnswers :
    /\ LocalStageFailed(r) => "entities" \in DOMAIN r.body /\ "tasks" \in DOMAIN r.body
    /\ Returned(r) => "summary" \in DOMAIN r.body

\* no two items have the same text after trimming and lower-casing
Deduplicated(items) ==
  \A i \in 1..Len(items), j \in 1..Len(items) :
    i # j => TaskKey(items[i]) # TaskKey(items[j])

\* C6: every tasks list the pipeline returns, in the /upload response, in the
\* stored meeting and in the /test-summary response, is deduplicated.
C6_ReturnedTasksDeduplicated ==
  /\ \A r \in PipelineAnswers :
       "tasks" \in DOMAIN r.body => Deduplicated(r.body.tasks)
  /\ \A k \in 1..Len(meetings) : Deduplicated(Deref(meetings[k].tasks))

\* the tasks a step creates and hands out: those it stores, and those a
\* /test-summary answers with
NewlyStored == SubSeq(heap', Len(heap) + 1, Len(heap'))

NewlyAnswered(n) ==
  IF reqs[n].kind = "test" /\ reqs[n].pc = "ner" /\ reqs'[n].status = 200
  THEN reqs'[n].body.tasks ELSE <<>>

FreshIds(items) ==
  /\ \A k \in 1..Len(items) : items[k].id >= taskIdCounter /\ items[k].id < taskIdCounter'
  /\ \A i \in 1..Len(items), j \in 1..Len(items) : i < j => items[i].id < items[j].id

\* the ids of the tasks the stores and the answers hold
StoredIds == {heap[k].id : k \in 1..Len(heap)}

AnsweredIds ==
  UNION {{r.body.tasks[k].id : k \in 1..Len(r.body.tasks)} :
           r \in {q \in PipelineAnswers : "tasks" \in DOMAIN q.body}}

\* C8: task ids come from one counter that only increases: every task a step
\* creates gets an id that is larger than every id assigned before it, so that
\* no two tasks of the global task store share an id, whatever the
\* interleaving of the requests.
C8_TaskIdsIncrease ==
  /\ [](/\ \A id \in StoredIds \cup AnsweredIds : id < taskIdCounter
        /\ \A i \in 1..Len(tasks), j \in 1..Len(tasks) :
             i # j => heap[tasks[i]].id # heap[tasks[j]].id)
  /\ [][/\ taskIdCounter' >= taskIdCounter
        /\ FreshIds(NewlyStored)
        /\ \A n \in 1..Len(reqs) : FreshIds(NewlyAnswered(n))]_vars

C8_Witness ==
  /\ Len(meetings) = 2
  /\ \E i \in 1..Len(tasks), j \in 1..Len(tasks) :
       heap[tasks[i]].meetingId # heap[tasks[j]].meetingId
  /\ Cardinality(StoredIds) >= 3
\* the transcriptions the transcriber can give, and what cleanTranscript makes
\* of them
CleanedOf ==
  Tabulated([t \in {Heard[raw].transcription : raw \in TranscriberTexts} |->
               cleanTranscript(t)])

\* the transcriber has answered the /upload request r with a transcription
Transcription(r) ==
  /\ r.kind = "upload"
  /\ r.pc \notin {"convert", "transcribe"}
  /\ ~(r.status = 500 /\ r.body.error \in {NoFileMessage, TranscriberMessage})

TooShort(r) ==
  Len(trim(r.transcription)) < 20 \/ Len(CleanedOf[r.transcription]) < 10

\* C17: an /upload whose transcription has fewer than 20 characters after
\* trimming, or whose cleaned transcription has fewer than 10, is answered with
\* the transcription and the fixed message of its case, without any stage of
\* generateSummary, any entity extraction or any task extraction; the step
\* that answers it leaves meetings, tasks and both id counters unchanged.
C17_ShortTranscriptShortCircuits ==
  /\ [](\A r \in Requests :
         Transcription(r) /\ TooShort(r) =>
           /\ r.pc = "done" /\ r.status = 200
           /\ r.body =
                [transcription |-> r.transcription,
                 summary |->
                   IF Len(trim(r.transcription)) < 20
                   THEN "The audio is too short. No meaningful conversation detected."
                   ELSE "This audio mainly contains background sounds or unclear speech."]
           /\ r.log = <<>> /\ r.remote = NoRemote
           /\ r.abstractive = NoAbstractive /\ r.sum = NoSummary)
  /\ [][\A n \in 1..Len(reqs) :
          reqs[n].pc = "transcribe" /\ Transcription(reqs'[n]) /\ TooShort(reqs'[n])
            => UNCHANGED stores]_vars

C17_Witness ==
  /\ meetings # <<>>
  /\ tasks # <<>>
  /\ \E r \in Requests :
       /\ Transcription(r)
       /\ Len(trim(r.transcription)) >= 20
       /\ TooShort(r)
       /\ r.pc = "done"

\* the /test-summary requests answered with a result, by index
AnsweredTests ==
  {n \in 1..Len(reqs) :
     reqs[n].kind = "test" /\ reqs[n].pc = "done" /\ reqs[n].status = 200}

\* a task without the two fields that are read from outside the run: its id,
\* from taskIdCounter, and its createdAt, from the clock
WithoutRunFields(task) == [f \in DOMAIN task \ {"id", "createdAt"} |-> task[f]]

WithoutRunFieldsOf(items) ==
  [k \in 1..Len(items) |-> WithoutRunFields(items[k])]

\* C18 as written: two runs of extractTasksFromText on the same input produce
\* the same output, whatever ran before or in between.
C18_AsWritten ==
  \A m, n \in AnsweredTests :
    reqs[m].text = reqs[n].text => reqs[m].body.tasks = reqs[n].body.tasks

\* the /test-summary request n, which runs the core and stores nothing, is
\* received or moves on in this step
CoreMoves(n) ==
  /\ reqs'[n].kind = "test"
  /\ n > Len(reqs) \/ reqs'[n] # reqs[n]

\* the tasks the request n is answered with in this step
TasksAnswered(n) ==
  IF n <= Len(reqs) /\ reqs[n].pc # "done" /\ reqs'[n].pc = "done"
     /\ reqs'[n].status = 200
  THEN reqs'[n].body.tasks
  ELSE <<>>

\* C18 as amended: the only shared mutable state the core touches is
\* taskIdCounter.  Two runs of generateSummary with the same text, context and
\* preference to which the capabilities answer the same return the same
\* result; two runs of extractTasksFromText on the same text produce tasks
\* equal in every field but id and createdAt; and a step of a run of the core
\* leaves the stores and meetingIdCounter as they are and moves taskIdCounter
\* by the number of tasks it makes, whose ids are the values the counter
\* passes through.
C18_OnlyIdsDependOnHistory ==
  /\ [](/\ \A m, n \in 1..Len(reqs) :
             /\ reqs[m].text = reqs[n].text /\ reqs[m].context = reqs[n].context
             /\ reqs[m].preferRemote = reqs[n].preferRemote
             /\ reqs[m].remote = reqs[n].remote
             /\ reqs[m].abstractive = reqs[n].abstractive
             /\ Returned(reqs[m]) /\ Returned(reqs[n])
             => reqs[m].sum = reqs[n].sum
        /\ \A m, n \in AnsweredTests :
             reqs[m].text = reqs[n].text
               => WithoutRunFieldsOf(reqs[m].body.tasks)
                    = WithoutRunFieldsOf(reqs[n].body.tasks))
  /\ [][\A n \in 1..Len(reqs') :
          CoreMoves(n)
            => /\ UNCHANGED <<meetings, tasks, heap, meetingIdCounter>>
               /\ taskIdCounter' = taskIdCounter + Len(TasksAnswered(n))
               /\ \A k \in 1..Len(TasksAnswered(n)) :
                    TasksAnswered(n)[k].id = taskIdCounter + k - 1]_vars

\* two runs on the same text answered tasks that differ in id and in
\* createdAt, the run received second having finished first
C18_Witness ==
  \E m, n \in AnsweredTests :
    /\ m < n
    /\ reqs[m].text = reqs[n].text
    /\ reqs[m].sum # reqs[n].sum
    /\ Len(reqs[m].body.tasks) = 4
    /\ reqs[n].body.tasks[1].id = 1
    /\ reqs[m].body.tasks[1].id = 5
    /\ reqs[m].body.tasks[1].createdAt # reqs[n].body.tasks[1].createdAt
    /\ reqs[n].body.tasks[1].createdAt # reqs[n].body.tasks[4].createdAt

(***************************************************************************)
(* Runs of generateSummary whose caller may go away: /test-summary         *)
(* requests, the answers of the capabilities, and clients that close their *)
(* connection.                                                             *)
(***************************************************************************)
NextAbandon ==
  \/ \E text \in TestTexts, context \in Contexts, flag \in TestFlags :
       ReceiveTestSummary(text, context, flag)
  \/ \E n \in 1..Len(reqs), response \in FetchOutcomes : Fetched(n, response)
  \/ \E n \in 1..Len(reqs), outcome \in BodyOutcomes : RemoteReturns(n, outcome)
  \/ \E n \in 1..Len(reqs), outcome \in AbstractiveOutcomes : AbstractiveReturns(n, outcome)
  \/ \E n \in 1..Len(reqs), outcome \in NerOutcomes : NerReturns(n, outcome)
  \/ \E n \in 1..Len(reqs) : CallerLeaves(n)

SpecAbandon == Init /\ [][NextAbandon]_vars

\* C19: once the caller of a run has gone away, generateSummary starts no
\* further stage: the run enters neither the local stage nor the abstractive
\* call after that.
C19_AbandonedRunStops ==
  \A r \in Requests : r.caller # Connected => r.log = r.caller.log

(***************************************************************************)
(* The stores under every route, from a server that has already stored a   *)
(* meeting.  The first state is the one an /upload of the team's talk      *)
(* leaves behind (Spec reaches its stores: generateSummary took its local  *)
(* path, the token classifier answered, and the clock did not tick), with  *)
(* the request that made it answered and gone; the steps are those of      *)
(* Next, so that MaxRequests more requests of any kind follow.             *)
(***************************************************************************)
\* the upload that has been answered: no context, no useCustomModel
SeedText == Heard[TeamTalk].cleaned

SeedBlock == BlockOf[SeedText][UNDEFINED]

SeedRun ==
  [NewRequest("upload", UNDEFINED, JsUndefined) EXCEPT
     !.transcription = Heard[TeamTalk].transcription,
     !.text = SeedText,
     !.sum = LocalResult(IF NeedsAbstractive(SeedBlock)
                         THEN WithAbstractive(SeedBlock, AbstractiveText)
                         ELSE SeedBlock)]

SeedEntities == EntitiesOf[SeedText][[ok |-> TRUE, tokens |-> NamedTokens]]

\* the readings of a clock that shows the early instant throughout
SteadyClock(count) == [k \in 1..count |-> EarlyInstant]

SeedFirst ==
  NumberTasks(TaskFieldsOf[SeedText], 1, SteadyClock(Len(TaskFieldsOf[SeedText])))

SeedSecond ==
  NumberTasks(TaskFieldsOf[SeedRun.sum.summary], 1 + Len(SeedFirst),
              SteadyClock(Len(TaskFieldsOf[SeedRun.sum.summary])))

SeedKept == AtIndices(SeedFirst \o SeedSecond, KeptOf[SeedText][SeedRun.sum.summary])

SeedRefs == [k \in 1..Len(SeedKept) |-> k]

\* the stores after that upload
SeedStored ==
  /\ meetings = <<NewMeeting(1, SeedRun, SeedEntities, SeedRefs, EarlyInstant)>>
  /\ heap = StoredTasks(SeedKept, 1)
  /\ tasks = SeedRefs
  /\ meetingIdCounter = 2
  /\ taskIdCounter = 1 + Len(TaskFieldsOf[SeedText])
                       + Len(TaskFieldsOf[SeedRun.sum.summary])

InitStore ==
  SeedStored /\ reqs = <<>> /\ wallClock = EarlyInstant /\ arg = "" /\ res = NULL

SpecStore == InitStore /\ [][Next]_vars

\* the meetings and the global list of tasks, as a client reads them
StoredMeetings == [k \in 1..Len(meetings) |-> MeetingJson(meetings[k])]

StoredTaskList == Deref(tasks)

\* the step is a DELETE /meetings/:id that succeeds, on the meeting of this id
MeetingDeleted(meetingId) ==
  /\ Len(reqs') = Len(reqs) + 1
  /\ reqs'[Len(reqs')].kind = "deleteMeeting"
  /\ reqs'[Len(reqs')].status = 200
  /\ reqs'[Len(reqs')].target = meetingId

\* C20: after DELETE /meetings/:id succeeds the meeting is gone and the global
\* list of tasks holds no task whose meetingId is that id, while the other
\* meetings and the tasks of the other meetings are as they were.
C20_DeleteMeetingDeletesItsTasks ==
  [][\A meetingId \in KnownMeetingIds :
       MeetingDeleted(meetingId) =>
         /\ \A k \in 1..Len(meetings') : meetings'[k].id # meetingId
         /\ \A k \in 1..Len(tasks') : heap'[tasks'[k]].meetingId # meetingId
         /\ StoredMeetings' = SelectSeq(StoredMeetings, LAMBDA m : m.id # meetingId)
         /\ StoredTaskList' = SelectSeq(StoredTaskList, LAMBDA t : t.meetingId # meetingId)
    ]_vars

C20_Witness ==
  /\ meetingIdCounter = 3
  /\ Len(meetings) = 1
  /\ meetings[1].id = 2
  /\ tasks # <<>>
  /\ \E r \in Requests : r.kind = "deleteMeeting" /\ r.status = 200 /\ r.target = 1

\* C21: every task of the global list of tasks has one of the statuses
\* pending, in-progress, completed, whatever uploads and PATCH requests came.
C21_StatusInEnum ==
  \A k \in 1..Len(tasks) :
    heap[tasks[k]].status \in {"pending", "in-progress", "completed"}

\* the ids of the tasks a client can read, in the global list of tasks and in
\* the tasks lists of the stored meetings
VisibleTaskIds ==
  {StoredTaskList[k].id : k \in 1..Len(StoredTaskList)}
    \cup UNION {{StoredMeetings[m].tasks[k].id : k \in 1..Len(StoredMeetings[m].tasks)} :
                  m \in 1..Len(StoredMeetings)}

\* C28: a task that DELETE /tasks/:id has deleted is neither in the global
\* list of tasks nor in the tasks list of any stored meeting.
C28_DeletedTaskVisibleNowhere ==
  \A r \in Requests :
    (r.kind = "deleteTask" /\ r.status = 200) => r.target \notin VisibleTaskIds

\* the /test-summary requests answered with their tasks
TestsAnswered == {r \in Requests : r.kind = "test" /\ r.pc = "done" /\ r.status = 200}

\* C29: every task of the global list of tasks has the id of a stored meeting
\* as its meetingId, and no task answered by /test-summary is in the global
\* list of tasks or in the tasks list of a stored meeting.
C29_TasksBelongToStoredMeetings ==
  /\ \A k \in 1..Len(tasks) :
       \E m \in 1..Len(meetings) : heap[tasks[k]].meetingId = meetings[m].id
  /\ \A r \in TestsAnswered :
       \A k \in 1..Len(r.body.tasks) : r.body.tasks[k].id \notin VisibleTaskIds

C29_Witness ==
  /\ Len(meetings) = 1
  /\ Len(tasks) >= 2
  /\ \E r \in TestsAnswered : Len(r.body.tasks) >= 2

\* the step answers request n with an error: an /upload with 500, or a PATCH
\* or DELETE with 404
AnsweredWithError(n) ==
  /\ n > Len(reqs) \/ reqs[n].pc # "done"
  /\ reqs'[n].pc = "done"
  /\ \/ reqs'[n].kind = "upload" /\ reqs'[n].status = 500
     \/ reqs'[n].kind \in {"patchTask", "deleteTask", "deleteMeeting"}
          /\ reqs'[n].status = 404

\* C30: a step that answers an /upload with 500, or a PATCH or DELETE with
\* 404, leaves the meetings, the global list of tasks and the task objects as
\* they were.
C30_ErrorsLeaveStoresUnchanged ==
  [][(\E n \in 1..Len(reqs') : AnsweredWithError(n))
       => /\ meetings' = meetings
          /\ tasks' = tasks
          /\ heap' = heap
          /\ meetingIdCounter' = meetingIdCounter
    ]_vars

C30_Witness ==
  /\ Len(meetings) = 1
  /\ tasks # <<>>
  /\ \E r \in Requests :
       r.kind = "upload" /\ r.status = 500 /\ r.body = [error |-> NoSplitMessage]
          /\ r.pc = "done"

\* a PATCH or DELETE of an id that does not exist has been answered with 404
\* while a meeting and its tasks are stored
C30_WitnessNotFound ==
  /\ Len(meetings) = 1
  /\ tasks # <<>>
  /\ \E r \in Requests :
       r.kind \in {"patchTask", "deleteTask", "deleteMeeting"} /\ r.status = 404

\* pipeline('summarization', 'Xenova/distilbart-cnn-12-6')
AbstractiveModelName == "Xenova/distilbart-cnn-12-6"

\* the abstractive call of the run was made and its text went into the summary
AbstractiveContributed(r) ==
  /\ r.abstractive # NoAbstractive
  /\ r.abstractive.ok
  /\ Len(r.abstractive.result) >= 1

\* C26: the modelUsed of every result of generateSummary is the model the
\* remote response reports when the remote stage succeeded, and otherwise
\* names the abstractive model only when the abstractive call of the run was
\* made and added its text to the summary.
C26_ModelUsedNamesWhatRan ==
  \A r \in Requests :
    Returned(r) =>
      IF r.log = <<"remote">>
      THEN r.sum.modelUsed = Field(r.remote.body, "model_used")
      ELSE includes(r.sum.modelUsed, AbstractiveModelName)
             => AbstractiveContributed(r)

(***************************************************************************)
(* cleanTranscript applied twice.  arg is the transcript, res the values   *)
(* of the successive applications.                                         *)
(***************************************************************************)
MaxCleanWords == 7
MaxParenTokens == 4

CleanWords == {"a", "b", "c"}
ParenTokens == {"a", "(a)", "(", ")"}

\* the sequences of at most n elements of S
SeqsUpTo(S, n) == UNION {[1..k -> S] : k \in 0..n}

CleanInputs ==
  {join(ws, " ") : ws \in SeqsUpTo(CleanWords, MaxCleanWords)}
    \cup {join(ws, " ") : ws \in SeqsUpTo(ParenTokens, MaxParenTokens)}

InitClean == ServerInit /\ arg \in CleanInputs /\ res = <<>>

Clean ==
  /\ Len(res) < 2
  /\ res' = Append(res, cleanTranscript(IF res = <<>> THEN arg ELSE res[Len(res)]))
  /\ UNCHANGED <<stores, reqs, wallClock, arg>>

SpecClean == InitClean /\ [][Clean]_vars

\* C9: cleanTranscript is idempotent: cleaning a cleaned transcript changes
\* nothing.
C9_CleanIdempotent == Len(res) = 2 => res[2] = res[1]

(***************************************************************************)
(* extractTasksFromText on one sentence: a lead that one or two of the     *)
(* task patterns match and a tail of NumWords words; a request followed by *)
(* words that hold or do not hold priority keywords; and two transcripts.  *)
(* arg is the text, res the tasks.                                         *)
(***************************************************************************)
MaxTaskWords == 41

TaskLeads ==
  {"We will", "We will review", "TODO:", "Follow up with", "Please send",
   "Due friday:"}

TaskTails == {"", "s"}

RECURSIVE Words(_, _)
Words(word, n) == IF n = 0 THEN "" ELSE Words(word, n - 1) \o " " \o word

UrgentTalk == "This is urgent: please review the contract immediately."

PriorityWords ==
  {"", " URGENT", " Asap", " soon", " Important", " unQuickly", " deadlines",
   " argent"}

PriorityTexts ==
  {"Please send the report" \o w1 \o w2 : w1 \in PriorityWords, w2 \in PriorityWords}

TaskInputs ==
  {lead \o Words("plan", n) \o tail :
     lead \in TaskLeads, n \in 0..MaxTaskWords, tail \in TaskTails}
    \cup PriorityTexts \cup {UrgentTalk, TeamTalk}

\* no result yet
NoResult == [pending |-> TRUE]

InitTasks == ServerInit /\ arg \in TaskInputs /\ res = NoResult

\* extractTasksFromText(arg) returns: the fields of its tasks are those of the
\* text, and it reads the clock once for every task
Extracted(fields) ==
  \E clock \in Clocks(Len(fields)) :
    /\ res' = [tasks |-> NumberTasks(fields, taskIdCounter, clock)]
    /\ wallClock' = LastReading(clock)

ExtractTasks ==
  /\ res = NoResult
  /\ Extracted(TaskFields(arg))
  /\ taskIdCounter' = taskIdCounter + Len(res'.tasks)
  /\ UNCHANGED <<meetings, tasks, heap, meetingIdCounter, reqs, wallClock, arg>>

SpecTasks == InitTasks /\ [][ExtractTasks]_vars

\* C7: every task extractTasksFromText produces has a text longer than 10 and
\* shorter than 200 characters.
C7_TaskTextLength ==
  res # NoResult =>
    \A k \in 1..Len(res.tasks) :
      Len(res.tasks[k].text) > 10 /\ Len(res.tasks[k].text) < 200

C7_Witness ==
  /\ res # NoResult
  /\ Len(arg) > 200
  /\ \E k \in 1..Len(res.tasks) : Len(res.tasks[k].text) = 199

(***************************************************************************)
(* extractEntities on a text and an outcome of the token classification.   *)
(* arg is the pair, res the grouped entities.                              *)
(***************************************************************************)
MaxTokens == 3

TokenMenu ==
  {[entity |-> "B-PERSON", word |-> "Al", score |-> 97, start |-> 0, end |-> 2],
   [entity |-> "I-PERSON", word |-> "##ice", score |-> 95, start |-> 2, end |-> 5],
   [entity |-> "B-PERSON", word |-> "Mon", score |-> 90, start |-> 10, end |-> 13],
   [entity |-> "I-PERSON", word |-> "##day", score |-> 90, start |-> 13, end |-> 16],
   [entity |-> "B-PERSON", word |-> "Bob", score |-> 50, start |-> 30, end |-> 33],
   [entity |-> "B-ORG", word |-> "Acme", score |-> 88, start |-> 20, end |-> 24],
   [entity |-> "B-toString", word |-> "x", score |-> 90, start |-> 40, end |-> 41]}

EntityTexts ==
  {"", "Alice said hello to Bob Smith at Acme Corp.",
   "Monday: Good Morning. Carol: we meet Dave Jones (finance).",
   "Erin said we signed with Monday Systems."}

EntityInputs ==
  {[text |-> text, ner |-> [ok |-> ok, tokens |-> tokens]] :
     text \in EntityTexts, ok \in BOOLEAN, tokens \in SeqsUpTo(TokenMenu, MaxTokens)}

InitEntities == ServerInit /\ arg \in EntityInputs /\ res = NoResult

ExtractEntities ==
  /\ res = NoResult
  /\ res' = extractEntities(arg.text, arg.ner)
  /\ UNCHANGED <<stores, reqs, wallClock, arg>>

SpecEntities == InitEntities /\ [][ExtractEntities]_vars

\* C10: every entity of the PERSON group extractEntities returns, on the primary
\* path and on both fallback paths, has a text isValidPersonName accepts: at
\* least 2 characters, not in the stoplist, starting with an uppercase letter,
\* only letters and spaces.
C10_PersonsValid ==
  res # NoResult =>
    \A k \in 1..Len(res.PERSON) :
      /\ isValidPersonName(res.PERSON[k].text)
      /\ Len(res.PERSON[k].text) >= 2
      /\ At(res.PERSON[k].text, 1) \in UpperChars
      /\ \A i \in 1..Len(res.PERSON[k].text) :
           At(res.PERSON[k].text, i) \in Letters \cup SpaceChars

C10_Witness ==
  /\ res # NoResult
  /\ arg.ner.ok
  /\ Len(arg.ner.tokens) = 3
  /\ Len(res.PERSON) = 1
  /\ res.PERSON[1].text = "Alice"

\* C11: when the token-classification capability throws, extractEntities
\* still returns: LOC and MISC are empty, PERSON is what
\* extractPersonNamesRuleBased finds in the text and ORG what
\* extractOrganizationsRuleBased finds.
C11_FailureFallsBackToRules ==
  res # NoResult /\ ~arg.ner.ok =>
    /\ DOMAIN res = {"PERSON", "ORG", "LOC", "MISC"}
    /\ res.LOC = <<>>
    /\ res.MISC = <<>>
    /\ res.PERSON = extractPersonNamesRuleBased(arg.text)
    /\ res.ORG = extractOrganizationsRuleBased(arg.text)

C11_Witness ==
  /\ res # NoResult
  /\ ~arg.ner.ok
  /\ arg.ner.tokens # <<>>
  /\ res.PERSON # <<>>
  /\ res.ORG # <<>>
  /\ res.LOC = <<>>

\* C12 as written: whenever the token-classification capability fails, all
\* four groups of the result are empty.
C12_AsWritten ==
  res # NoResult /\ ~arg.ner.ok =>
    res.PERSON = <<>> /\ res.ORG = <<>> /\ res.LOC = <<>> /\ res.MISC = <<>>

\* C12: whenever the token-classification capability fails, LOC and MISC are
\* empty, and PERSON and ORG hold rule-based entities only (confidence 0.8 and
\* 0.7), each group being empty exactly when its rule-based extractor finds
\* nothing in the text.
C12_FailureKeepsRuleEntities ==
  res # NoResult /\ ~arg.ner.ok =>
    /\ res.LOC = <<>> /\ res.MISC = <<>>
    /\ \A k \in 1..Len(res.PERSON) : res.PERSON[k].confidence = 80
    /\ \A k \in 1..Len(res.ORG) : res.ORG[k].confidence = 70
    /\ res.PERSON = <<>> <=> extractPersonNamesRuleBased(arg.text) = <<>>
    /\ res.ORG = <<>> <=> extractOrganizationsRuleBased(arg.text) = <<>>

C12_Witness ==
  /\ res # NoResult
  /\ ~arg.ner.ok
  /\ arg.ner.tokens = <<>>
  /\ \E k \in 1..Len(res.PERSON) : res.PERSON[k].text = "Erin"
  /\ \E k \in 1..Len(res.ORG) : res.ORG[k].text = "Monday"

\* the text holds one of the words, in whatever case
HoldsAny(text, words) ==
  \E w \in words : \E i \in 1..Len(text) : LitAtI(text, i, w)

\* C13: the priority of a task is high when its text holds, in whatever case
\* and wherever in it, one of the urgency keywords; otherwise medium when it
\* holds one of the softer keywords; otherwise low.  Keywords of both sets
\* give high.  The text "This is urgent: please review the contract
\* immediately." yields a task of priority high.
C13_PriorityByKeyword ==
  res # NoResult =>
    /\ \A k \in 1..Len(res.tasks) :
         res.tasks[k].priority =
           IF HoldsAny(res.tasks[k].text, highPriorityKeywords) THEN "high"
           ELSE IF HoldsAny(res.tasks[k].text, mediumPriorityKeywords) THEN "medium"
                ELSE "low"
    /\ arg = UrgentTalk => \E k \in 1..Len(res.tasks) : res.tasks[k].priority = "high"

C13_Witness ==
  /\ res # NoResult
  /\ \E k \in 1..Len(res.tasks) :
       /\ res.tasks[k].text = "the report Important URGENT"
       /\ res.tasks[k].priority = "high"

\* C14: for the text "Alice: We will schedule the launch by Friday. Bob: I
\* will follow up with Carol on the budget." extractTasksFromText yields at
\* least one task assigned to exactly "Carol" whose priority is low.
C14_CarolAssigned ==
  res # NoResult /\ arg = TeamTalk =>
    \E k \in 1..Len(res.tasks) :
      res.tasks[k].assignedTo = "Carol" /\ res.tasks[k].priority = "low"

\* C15: the task of a sentence whose deadline is introduced by "by" and
\* followed by the day name Friday has the deadline "Friday", without the
\* introducing word.
C15_DeadlineWithoutKeyword ==
  res # NoResult =>
    \A k \in 1..Len(res.tasks) :
      includes(res.tasks[k].extractedFrom, "by Friday")
        => res.tasks[k].deadline = "Friday"

\* the entities of group label the primary path finds in the tokens
PrimaryGroup(tokens, label) ==
  GroupedPrimary(mergeConsecutiveTokens(processedTokens(tokens)), label)

\* an entity made by the rules carries no label
FromRules(entities) == \A k \in 1..Len(entities) : "label" \notin DOMAIN entities[k]

FromTokens(entities) == \A k \in 1..Len(entities) : "label" \in DOMAIN entities[k]

\* the primary path returns: the capability returned and the grouping of its
\* tokens did not throw
PrimaryReturns(ner) ==
  ner.ok /\ ~GroupingThrows(mergeConsecutiveTokens(processedTokens(ner.tokens)))

\* C24 as written: when the primary path succeeds with no valid PERSON, the
\* person rules and the organization rules supply PERSON and ORG.
C24_AsWritten ==
  (/\ res # NoResult
   /\ PrimaryReturns(arg.ner)
   /\ PrimaryGroup(arg.ner.tokens, "PERSON") = <<>>) =>
    /\ res.PERSON = extractPersonNamesRuleBased(arg.text)
    /\ res.ORG = extractOrganizationsRuleBased(arg.text)

\* C24: when the primary path returns with at least one valid PERSON, no
\* entity of the result comes from the rules; when it returns with no valid
\* PERSON, the person rules supply PERSON while ORG, LOC and MISC stay those
\* of the primary path; when it throws (the capability fails, or the grouping
\* of its tokens does), the person rules and the organization rules supply
\* PERSON and ORG.
C24_RulesOnlyWhereNeeded ==
  res # NoResult =>
    /\ (PrimaryReturns(arg.ner) /\ PrimaryGroup(arg.ner.tokens, "PERSON") # <<>>) =>
         /\ res.PERSON = PrimaryGroup(arg.ner.tokens, "PERSON")
         /\ FromTokens(res.PERSON) /\ FromTokens(res.ORG)
         /\ FromTokens(res.LOC) /\ FromTokens(res.MISC)
    /\ (PrimaryReturns(arg.ner) /\ PrimaryGroup(arg.ner.tokens, "PERSON") = <<>>) =>
         /\ res.PERSON = extractPersonNamesRuleBased(arg.text)
         /\ FromRules(res.PERSON)
         /\ res.ORG = PrimaryGroup(arg.ner.tokens, "ORG")
         /\ FromTokens(res.ORG) /\ FromTokens(res.LOC) /\ FromTokens(res.MISC)
    /\ ~PrimaryReturns(arg.ner) =>
         /\ res.PERSON = extractPersonNamesRuleBased(arg.text)
         /\ res.ORG = extractOrganizationsRuleBased(arg.text)
         /\ res.LOC = <<>> /\ res.MISC = <<>>
         /\ FromRules(res.PERSON) /\ FromRules(res.ORG)

C24_Witness ==
  /\ res # NoResult
  /\ PrimaryReturns(arg.ner)
  /\ Len(arg.ner.tokens) = 3
  /\ \E k \in 1..Len(arg.ner.tokens) : arg.ner.tokens[k].entity = "B-PERSON"
  /\ PrimaryGroup(arg.ner.tokens, "PERSON") = <<>>
  /\ \E k \in 1..Len(res.PERSON) : res.PERSON[k].text = "Erin"
  /\ Len(res.ORG) = 1
  /\ res.ORG[1].text = "Acme"
  /\ extractOrganizationsRuleBased(arg.text) # <<>>

\* the capability returned a token labelled toString beside a valid person,
\* the grouping threw, and the rules supplied PERSON and ORG
C24_GroupingThrew ==
  /\ res # NoResult
  /\ arg.ner.ok
  /\ ~PrimaryReturns(arg.ner)
  /\ \E k \in 1..Len(arg.ner.tokens) : arg.ner.tokens[k].word = "Al"
  /\ \E k \in 1..Len(res.PERSON) : res.PERSON[k].text = "Erin"
  /\ \E k \in 1..Len(res.ORG) : res.ORG[k].text = "Monday"

(***************************************************************************)
(* parseTranscript on transcripts of up to MaxUnits sentence-like units.   *)
(* arg is the transcript, res the speakers and segments.                   *)
(***************************************************************************)
MaxUnits == 3

TranscriptUnits ==
  {"Alice: we ship the release.", "Bob - I can test it today!",
   "Good: that sounds fine to me.", "Alice, please send the notes.",
   "Nothing more to add here.", "Mary Ann: is the budget done?",
   "Well - Bob: we are done.", "Bob: done.", "Ok then."}

RECURSIVE Spaced(_)
Spaced(units) ==
  IF units = <<>> THEN ""
  ELSE IF Len(units) = 1 THEN units[1]
       ELSE units[1] \o " " \o Spaced(Tail(units))

ParseInputs ==
  {Spaced(units) : units \in SeqsUpTo(TranscriptUnits, MaxUnits)} \cup {TeamTalk}

InitParse == ServerInit /\ arg \in ParseInputs /\ res = NoResult

Parse ==
  /\ res = NoResult
  /\ res' = parseTranscript(arg)
  /\ UNCHANGED <<stores, reqs, wallClock, arg>>

SpecParse == InitParse /\ [][Parse]_vars

\* the sentence-like units of a transcript, before any is discarded
UnitsOf(transcript) == SplitSentences(trim(NewlinesToSpaces(transcript)), 1)

\* C27: parseTranscript returns one segment for every sentence-like unit of
\* 10 characters or more, and none for a shorter unit.
C27_KeepsUnitsOfTenOrMore ==
  (res # NoResult /\ "segments" \in DOMAIN res) =>
    Len(res.segments) =
      Cardinality({k \in 1..Len(UnitsOf(arg)) : Len(trim(UnitsOf(arg)[k])) >= 10})

\* the index of the first segment spoken by speaker
FirstSegmentOf(segments, speaker) ==
  FirstOf({k \in 1..Len(segments) : segments[k].speaker = speaker})

\* C16: the speakers parseTranscript returns hold no speaker twice, are
\* exactly the speakers of the returned segments that have one, stand in the
\* order in which they first speak, and hold none of Good, Thanks, Yes, No,
\* Okay, Well; for the text "Alice: We will schedule the launch by Friday.
\* Bob: I will follow up with Carol on the budget." they are Alice, Bob.
C16_SpeakersUniqueInOrder ==
  res # NoResult =>
    /\ \A i, j \in 1..Len(res.speakers) :
         i < j => /\ res.speakers[i] # res.speakers[j]
                  /\ FirstSegmentOf(res.segments, res.speakers[i])
                       < FirstSegmentOf(res.segments, res.speakers[j])
    /\ {res.speakers[i] : i \in 1..Len(res.speakers)}
         = {res.segments[k].speaker : k \in 1..Len(res.segments)} \ {NULL}
    /\ \A i \in 1..Len(res.speakers) :
         res.speakers[i] \notin {"Good", "Thanks", "Yes", "No", "Okay", "Well"}
    /\ arg = TeamTalk => res.speakers = <<"Alice", "Bob">>

C16_Witness ==
  /\ res # NoResult
  /\ res.speakers = <<"Bob", "Alice">>
  /\ Len(res.segments) = 3
  /\ res.segments[1].speaker = "Bob"
  /\ res.segments[2].speaker = "Alice"
  /\ res.segments[3].speaker = "Bob"

(***************************************************************************)
(* The removal of duplicates on lists of up to MaxCandidates candidates.   *)
(* arg is the list, res the list that is kept.                             *)
(***************************************************************************)
MaxCandidates == 3

CandidateTexts ==
  {"Send the report", "send the report ", " SEND THE REPORT", "Call the vendor"}

CandidateMenu ==
  {[text |-> text, assignedTo |-> NULL, deadline |-> NULL, priority |-> "low"] :
     text \in CandidateTexts}
    \cup {[text |-> text, assignedTo |-> "Bob", deadline |-> "Friday",
           priority |-> "high"] : text \in CandidateTexts}

InitDedup ==
  ServerInit /\ arg \in SeqsUpTo(CandidateMenu, MaxCandidates) /\ res = NoResult

Dedup ==
  /\ res = NoResult
  /\ res' = [kept |-> uniqueTasks(arg)]
  /\ UNCHANGED <<stores, reqs, wallClock, arg>>

SpecDedup == InitDedup /\ [][Dedup]_vars

\* the text of an item, lower-cased and trimmed
TextKey(item) == trim(toLowerCase(item.text))

\* the index of the first item of items that has the key of item
FirstWithKey(items, item) ==
  FirstOf({k \in 1..Len(items) : TextKey(items[k]) = TextKey(item)})

\* C22: the removal of duplicates keeps, for each lower-cased and trimmed
\* text, exactly the first item of the list that has it, whatever the
\* assignee, deadline and priority of the later ones, and keeps the items in
\* the order of the list.
C22_KeepsFirstOfEachText ==
  res # NoResult =>
    /\ \A k \in 1..Len(arg) : \E i \in 1..Len(res.kept) :
         res.kept[i] = arg[FirstWithKey(arg, arg[k])]
    /\ \A i \in 1..Len(res.kept) :
         res.kept[i] = arg[FirstWithKey(arg, res.kept[i])]
    /\ \A i, j \in 1..Len(res.kept) :
         i < j => /\ TextKey(res.kept[i]) # TextKey(res.kept[j])
                  /\ FirstWithKey(arg, res.kept[i]) < FirstWithKey(arg, res.kept[j])

C22_Witness ==
  /\ res # NoResult
  /\ Len(arg) = 3
  /\ arg[1].text = " SEND THE REPORT" /\ arg[1].assignedTo = NULL
  /\ arg[2].text = "Call the vendor"
  /\ arg[3].text = "send the report " /\ arg[3].assignedTo = "Bob"
  /\ res.kept = <<arg[1], arg[2]>>

(***************************************************************************)
(* mergeConsecutiveTokens on lists of up to MaxMerged tokens.  arg is the  *)
(* list, res the merged entities.                                          *)
(***************************************************************************)
MaxMerged == 3

MergeMenu ==
  {[text |-> "Jo", label |-> "PERSON", confidence |-> 90, start |-> 0, end |-> 2],
   [text |-> "hn", label |-> "PERSON", confidence |-> 95, start |-> 2, end |-> 4],
   [text |-> "Smith", label |-> "PERSON", confidence |-> 80, start |-> 6, end |-> 11],
   [text |-> "Lee", label |-> "PERSON", confidence |-> 99, start |-> 14, end |-> 17],
   [text |-> "Acme", label |-> "ORG", confidence |-> 70, start |-> 7, end |-> 11],
   [text |-> "Corp", label |-> "ORG", confidence |-> 85, start |-> 12, end |-> 16]}

InitMerge ==
  ServerInit /\ arg \in SeqsUpTo(MergeMenu, MaxMerged) /\ res = NoResult

Merge ==
  /\ res = NoResult
  /\ res' = [merged |-> mergeConsecutiveTokens(arg)]
  /\ UNCHANGED <<stores, reqs, wallClock, arg>>

SpecMerge == InitMerge /\ [][Merge]_vars

\* the indices at which a new entity starts: the first token, and every token
\* whose label differs from that of the token before it or whose start is more
\* than 2 characters after its end
EntityStarts(tokens) ==
  {i \in 1..Len(tokens) :
     \/ i = 1
     \/ tokens[i].label # tokens[i - 1].label
     \/ tokens[i].start > tokens[i - 1].end + 2}

\* the index of the first and of the last token of the k-th entity
SpanFirst(tokens, k) ==
  CHOOSE i \in EntityStarts(tokens) :
    Cardinality({j \in EntityStarts(tokens) : j < i}) = k - 1

SpanLast(tokens, k) ==
  IF k = Cardinality(EntityStarts(tokens)) THEN Len(tokens)
  ELSE SpanFirst(tokens, k + 1) - 1

\* C23: mergeConsecutiveTokens merges a token into the current entity exactly
\* when it has the label of the entity and starts at most 2 characters after
\* its end.  An entity has the texts of its tokens concatenated, the start of
\* its first token, the end of its last token and the largest of their
\* confidences; every token is in exactly one entity; the tokens Jo (end 2)
\* and hn (start 2) of label PERSON give the one entity John.
C23_MergeByLabelAndGap ==
  res # NoResult =>
    /\ Len(res.merged) = Cardinality(EntityStarts(arg))
    /\ \A k \in 1..Len(res.merged) :
         /\ res.merged[k].label = arg[SpanFirst(arg, k)].label
         /\ res.merged[k].start = arg[SpanFirst(arg, k)].start
         /\ res.merged[k].end = arg[SpanLast(arg, k)].end
         /\ res.merged[k].text =
              ConcatRange([i \in 1..Len(arg) |-> arg[i].text],
                          SpanFirst(arg, k), SpanLast(arg, k))
         /\ res.merged[k].confidence =
              MaxOf({arg[i].confidence : i \in SpanFirst(arg, k)..SpanLast(arg, k)})
    /\ (Len(arg) = 2 /\ arg[1].text = "Jo" /\ arg[2].text = "hn")
         => Len(res.merged) = 1 /\ res.merged[1].text = "John"

C23_Witness ==
  /\ res # NoResult
  /\ Len(arg) = 3
  /\ Len(res.merged) = 2
  /\ res.merged[1].text = "John"
  /\ res.merged[1].confidence = 95
  /\ res.merged[1].end = 4
  /\ res.merged[2].text = "Lee"

(***************************************************************************)
(* extractAdvancedTasks (server.js 419-455), on the segments of            *)
(* transcripts of up to MaxTurns units.  arg is the transcript, res the    *)
(* segments and the action items.                                          *)
(***************************************************************************)
MinSegmentLength == 20

\* segments.map(s => s.content).join(' ')
AllText(segments) ==
  join([k \in 1..Len(segments) |-> segments[k].content], " ")

\* if (!task.assignedTo) task.assignedTo = segment.speaker
SpeakerDefault(fields, speaker) ==
  [k \in 1..Len(fields) |->
     [fields[k] EXCEPT !.assignedTo = IF Falsy(@) THEN speaker ELSE @]]

\* the tasks of one segment: those of its content when it has a speaker and
\* more than 20 characters
SegmentTasks(segment) ==
  IF segment.speaker # NULL /\ Len(segment.content) > MinSegmentLength
  THEN SpeakerDefault(TaskFields(segment.content), segment.speaker)
  ELSE <<>>

\* [...extractedTasks, ...tasks]
AllCandidates(segments) ==
  TaskFields(AllText(segments)) \o
    Flatten([k \in 1..Len(segments) |-> SegmentTasks(segments[k])])

\* assignee: task.assignedTo || task.assignee || 'Unassigned'
ActionItem(task) ==
  [task |-> task.text,
   assignee |-> IF Falsy(task.assignedTo) THEN "Unassigned" ELSE task.assignedTo,
   deadline |-> task.deadline,
   priority |-> IF Falsy(task.priority) THEN "low" ELSE task.priority]

ActionItems(candidates) ==
  [k \in 1..Len(uniqueTasks(candidates)) |-> ActionItem(uniqueTasks(candidates)[k])]

extractAdvancedTasks(segments) == ActionItems(AllCandidates(segments))

MaxTurns == 3

TurnUnits ==
  {"Alice: we will review the contract today.",
   "Bob: I will follow up with Carol on the budget.",
   "we should update the roadmap soon.",
   "Dana: please send it."}

AdvancedInputs == {Spaced(units) : units \in SeqsUpTo(TurnUnits, MaxTurns)}

InitAdvanced == ServerInit /\ arg \in AdvancedInputs /\ res = NoResult

Advanced ==
  /\ res = NoResult
  /\ res' = [segments |-> parseTranscript(arg).segments,
             candidates |-> AllCandidates(parseTranscript(arg).segments),
             items |-> extractAdvancedTasks(parseTranscript(arg).segments)]
  /\ taskIdCounter' = taskIdCounter + Len(res'.candidates)
  /\ UNCHANGED <<meetings, tasks, heap, meetingIdCounter, reqs, wallClock, arg>>

SpecAdvanced == InitAdvanced /\ [][Advanced]_vars

\* C25: every task that extractAdvancedTasks finds without an assignee in the
\* segment of a speaker is listed with that speaker as its assignee.
C25_SpeakerIsDefaultAssignee ==
  res # NoResult =>
    \A s \in 1..Len(res.segments) :
      (res.segments[s].speaker # NULL
         /\ Len(res.segments[s].content) > MinSegmentLength) =>
        \A t \in 1..Len(TaskFields(res.segments[s].content)) :
          Falsy(TaskFields(res.segments[s].content)[t].assignedTo) =>
            \A i \in 1..Len(res.items) :
              trim(toLowerCase(res.items[i].task)) =
                  trim(toLowerCase(TaskFields(res.segments[s].content)[t].text))
                => res.items[i].assignee = res.segments[s].speaker

====
